---------------------------- MODULE Spec2Model ----------------------------
(***************************************************************************)
(* Model of stackshift: the project analyzer (ProjectAnalyzer), the        *)
(* advisory analyzer (AIAnalyzer) and the migration planner                *)
(* (MigrationPlanner).                                                     *)
(*                                                                         *)
(* JavaScript strings that the code inspects character by character        *)
(* (String.includes, startsWith, glob extensions, path.join) are modelled  *)
(* as tuples of one-character strings, so that those tests are computed    *)
(* and not assumed.                                                        *)
(***************************************************************************)
EXTENDS Integers, Sequences, FiniteSets, TLC

VARIABLES
    rootExists,          \* the project directory exists
    files,               \* absolute paths that exist under the project root
    unreadable,          \* existing paths whose read fails (EACCES, EISDIR)
    manifest,            \* content of package.json
    pc,                  \* position of the running call
    entry,               \* the API the caller invoked
    options,             \* ProjectAnalyzerOptions of the call
    packageJson,         \* ProjectAnalyzer: result of readPackageJson
    requirementsTxt,     \* ProjectAnalyzer: result of readRequirementsTxt
    pyprojectToml,       \* ProjectAnalyzer: result of readPyprojectToml
    dependencies,        \* ProjectAnalyzer: result of analyzeDependencies
    basicAnalysis,       \* ProjectAnalyzer: result of performBasicAnalysis
    toRead,              \* AIAnalyzer.readCodebaseFiles: files not yet visited
    codebase,            \* AIAnalyzer: name -> content map
    codebasePackageJson, \* AIAnalyzer.analyzeDependencies: parsed manifest
    routingAnalysis,     \* AIAnalyzer: result of analyzeRouting
    dependencyAnalysis,  \* AIAnalyzer: result of analyzeDependencies
    aiAnalysis,          \* ProjectAnalyzer: value of the local aiAnalysis
    ops,                 \* log of filesystem and oracle operations performed
    outcome,             \* "pending", "returned" or "rejected"
    error,               \* the error a rejected call carries
    analysis,            \* the ProjectAnalysis handed to the planner
    plan,                \* the MigrationPlan
    scans,               \* results of the earlier analyzeProject calls
    dryRun,              \* rewriters: the dryRun argument
    codebaseAnalysis,    \* rewriters: the CodebaseAnalysis argument
    tree,                \* rewriters: the file tree, path -> content
    treeBefore,               \* the file tree when the current rewriter call began
    cursor,              \* rewriters: index of the loop in progress
    console,             \* lines printed by console.log / console.warn
    calls,               \* rewriter calls that have settled
    cmd,                 \* CLI: the command run and its options and answers
    cmdPc,               \* CLI: position of the command's action handler
    apiKey,              \* process.env.ANTHROPIC_API_KEY is set
    stdout,              \* CLI: what the command's handler has printed
    exitCode,            \* CLI: the exit code of the process
    cwdFiles,            \* CLI: files written to process.cwd()
    stepsDone            \* CLI: plan steps performMigration has gone through

vars == <<rootExists, files, unreadable, manifest, pc, entry, options,
          packageJson, requirementsTxt, pyprojectToml, dependencies,
          basicAnalysis, toRead, codebase,
          codebasePackageJson, routingAnalysis, dependencyAnalysis,
          aiAnalysis, ops, outcome, error, analysis, plan, scans,
          dryRun, codebaseAnalysis, tree, treeBefore, cursor, console, calls,
          cmd, cmdPc, apiKey, stdout, exitCode, cwdFiles, stepsDone>>

commandVars == <<cmd, cmdPc, apiKey, stdout, exitCode, cwdFiles,
                 stepsDone>>

rewriterVars == <<dryRun, codebaseAnalysis, tree, treeBefore, cursor, console,
                  calls>>

disk == <<rootExists, files, unreadable, manifest>>

---------------------------------------------------------------------------
(* Bounds *)

MaxDeps == 2        \* entries per dependency map in the classifier inputs
MaxFiles == 2       \* config files present in a project tree
MaxSrcFiles == 2    \* source files in the bulk read

---------------------------------------------------------------------------
(* JavaScript values *)

NULL == <<"null">>
Undef == <<"undefined">>
None == <<>>
Some(v) == <<v>>

\* JavaScript truthiness of a string | null | undefined value
Truthy(v) == v # NULL /\ v # Undef /\ v # <<>>

\* String.prototype.startsWith
StartsWith(s, p) == Len(p) <= Len(s) /\ SubSeq(s, 1, Len(p)) = p

\* String.prototype.endsWith
EndsWith(s, p) ==
    Len(p) <= Len(s) /\ SubSeq(s, Len(s) - Len(p) + 1, Len(s)) = p

\* String.prototype.includes
Includes(s, p) ==
    \E i \in 1..(Len(s) - Len(p) + 1) : SubSeq(s, i, i + Len(p) - 1) = p

\* Array.prototype.includes
ArrayIncludes(arr, x) == \E i \in 1..Len(arr) : arr[i] = x

Range(s) == {s[i] : i \in 1..Len(s)}

NoDuplicates(s) == \A i, j \in 1..Len(s) : i # j => s[i] # s[j]

\* sequences over S without repetition, of length at most n
RECURSIVE SeqsUpTo(_, _)
SeqsUpTo(S, n) ==
    IF n = 0 THEN {<<>>}
    ELSE LET shorter == SeqsUpTo(S, n - 1)
         IN  shorter \cup {Append(s, x) : s \in shorter, x \in S}

DistinctSeqsUpTo(S, n) == {s \in SeqsUpTo(S, n) : NoDuplicates(s)}

SubsetsUpTo(S, n) == {T \in SUBSET S : Cardinality(T) <= n}

---------------------------------------------------------------------------
(* Package names *)

Vite == <<"v","i","t","e">>
Rollup == <<"r","o","l","l","u","p">>
VitePluginReact ==
    <<"@","v","i","t","e","j","s","/","p","l","u","g","i","n","-","r","e","a","c","t">>
VitePluginVue ==
    <<"@","v","i","t","e","j","s","/","p","l","u","g","i","n","-","v","u","e">>
Vitest == <<"v","i","t","e","s","t">>
React == <<"r","e","a","c","t">>
ReactRouterDom ==
    <<"r","e","a","c","t","-","r","o","u","t","e","r","-","d","o","m">>

DepNames == {Vite, Rollup, VitePluginReact, Vitest, React, ReactRouterDom}

Dep(n, v) == [name |-> n, version |-> v]

\* { ...a, ...b } : keys of a in order, then the new keys of b; a key of
\* both keeps its place and takes b's value
SpreadMerge(a, b) ==
    LET inB(n) == \E j \in 1..Len(b) : b[j].name = n
        valB(n) == (CHOOSE j \in 1..Len(b) : b[j].name = n)
        inA(e) == \E i \in 1..Len(a) : a[i].name = e.name
        fresh(e) == ~inA(e)
    IN  [i \in 1..Len(a) |->
            IF inB(a[i].name) THEN b[valB(a[i].name)] ELSE a[i]]
        \o SelectSeq(b, fresh)

\* Object.keys
Keys(obj) == [i \in 1..Len(obj) |-> obj[i].name]

---------------------------------------------------------------------------
(* String literals of the source, and the strings of the modelled inputs *)

ProjectPath == <<"/","p">>
PackageJsonName == <<"p","a","c","k","a","g","e",".","j","s","o","n">>
RequirementsTxtName ==
    <<"r","e","q","u","i","r","e","m","e","n","t","s",".","t","x","t">>
PyprojectTomlName ==
    <<"p","y","p","r","o","j","e","c","t",".","t","o","m","l">>
TsconfigName == <<"t","s","c","o","n","f","i","g",".","j","s","o","n">>
JestConfigName == <<"j","e","s","t",".","c","o","n","f","i","g",".","j","s">>
PytestIniName == <<"p","y","t","e","s","t",".","i","n","i">>
EslintrcName == <<".","e","s","l","i","n","t","r","c">>
PrettierrcName == <<".","p","r","e","t","t","i","e","r","r","c">>
GithubDirName == <<".","g","i","t","h","u","b">>
WorkflowsDirName == <<"w","o","r","k","f","l","o","w","s">>
GitlabCiName == <<".","g","i","t","l","a","b","-","c","i",".","y","m","l">>
DockerfileName == <<"D","o","c","k","e","r","f","i","l","e">>
ViteConfigTsName ==
    <<"v","i","t","e",".","c","o","n","f","i","g",".","t","s">>
ViteConfigJsName ==
    <<"v","i","t","e",".","c","o","n","f","i","g",".","j","s">>
EnvName == <<".","e","n","v">>
EnvStarName == <<".","e","n","v",".","*">>
CustomConfigName ==
    <<"c","u","s","t","o","m",".","c","o","n","f","i","g",".","j","s">>
SrcA == <<"a",".","t","s">>
SrcReactRouter ==
    <<"r","e","a","c","t","-","r","o","u","t","e","r",".","t","s","x">>
SrcDist == <<"d","i","s","t","/","c",".","j","s">>
SrcB == <<"b",".","j","s","x">>
NextName == <<"n","e","x","t">>
NextReactName == <<"@","n","e","x","t","/","r","e","a","c","t">>
NextRouterName == <<"n","e","x","t","/","r","o","u","t","e","r">>
ReactRouterToken == <<"r","e","a","c","t","-","r","o","u","t","e","r">>
NodeModulesDir == <<"n","o","d","e","_","m","o","d","u","l","e","s","/">>
DistDir == <<"d","i","s","t","/">>
ExtJs == <<".","j","s">>
ExtJsx == <<".","j","s","x">>
ExtTs == <<".","t","s">>
ExtTsx == <<".","t","s","x">>
V4 == <<"^","4",".","0",".","0">>
V3 == <<"^","3",".","0",".","0">>
V18 == <<"^","1","8",".","2",".","0">>
V6 == <<"^","6",".","4",".","0">>
EqEq == <<"=","=">>
\* the backquote character is written "|"
Fence == <<"|","|","|">>
FenceJs == <<"|","|","|","j","s">>

RequirementsLines ==
    <<<<"#"," ","p","y">>,
      <<>>,
      <<" ","f","l","a","s","k","=","=","2",".","0">>,
      <<"v","i","t","e">>>>
ReplyFull ==
    <<<<"P","l","a","n">>,
      <<"-"," ","a","p","p">>,
      <<" ","-"," ","l","i","b">>,
      <<"1","."," ","g","o">>,
      <<"x"," ","2",".">>,
      <<"|","|","|","j","s">>,
      <<"m"," ","="," ","1">>,
      <<"|","|","|">>>>
ReplyPlain ==
    <<<<"o","k">>>>

---------------------------------------------------------------------------
(* Filesystem *)

\* path.join
PathJoin(dir, name) == dir \o <<"/">> \o name

\* path.join(this.projectPath, name)
InProject(name) == PathJoin(ProjectPath, name)

PackageJsonPath == InProject(PackageJsonName)

\* fs.pathExists
pathExists(p) == rootExists /\ (p = ProjectPath \/ p \in files)

\* fs.readFile rejects (ENOENT, EACCES, EISDIR)
readFileFails(p) == ~pathExists(p) \/ p \in unreadable

\* content handed back by fs.readFile: the text, and what JSON.parse makes
\* of it (None when the text is not JSON)
FileContent(p) ==
    [path |-> p,
     lines |-> IF p = InProject(RequirementsTxtName)
               THEN RequirementsLines ELSE <<>>,
     json |-> IF p = PackageJsonPath /\ manifest.state = "valid"
              THEN Some([dependencies |-> manifest.dependencies,
                         devDependencies |-> manifest.devDependencies])
              ELSE None]

\* the text of an empty JSON object
EmptyObjectText ==
    [path |-> <<>>, lines |-> <<>>,
     json |-> Some([dependencies |-> <<>>, devDependencies |-> <<>>])]

\* JSON.parse: Some(value), or None for a SyntaxError
JSONParse(content) == content.json

Op(kind, p) == <<kind, p>>

---------------------------------------------------------------------------
(* ProjectAnalyzer: dependencies and framework *)

checkCompatibility(packageName) ==
    LET incompatiblePackages == <<Vite, VitePluginReact, VitePluginVue>>
    IN  ~ArrayIncludes(incompatiblePackages, packageName)

suggestAlternative(packageName) ==
    CASE packageName = Vite -> NextName
      [] packageName = VitePluginReact -> NextReactName
      [] packageName = ReactRouterDom -> NextRouterName
      [] OTHER -> Undef

Dependency(name, version) ==
    [name |-> name, version |-> version,
     isCompatible |-> checkCompatibility(name),
     alternativePackage |-> suggestAlternative(name)]

\* String.prototype.trim, over spaces
RECURSIVE TrimStart(_)
TrimStart(s) ==
    IF s # <<>> /\ Head(s) = " " THEN TrimStart(Tail(s)) ELSE s

RECURSIVE TrimEnd(_)
TrimEnd(s) ==
    IF s # <<>> /\ s[Len(s)] = " "
    THEN TrimEnd(SubSeq(s, 1, Len(s) - 1)) ELSE s

Trim(s) == TrimEnd(TrimStart(s))

\* String.prototype.split(sep)
RECURSIVE Split(_, _)
Split(s, sep) ==
    LET at == {i \in 1..(Len(s) - Len(sep) + 1) :
                  SubSeq(s, i, i + Len(sep) - 1) = sep}
    IN  IF at = {} THEN <<s>>
        ELSE LET i == CHOOSE k \in at : \A m \in at : k <= m
             IN  <<SubSeq(s, 1, i - 1)>>
                 \o Split(SubSeq(s, i + Len(sep), Len(s)), sep)

\* dependencies declared by the lines of requirements.txt
RequirementsDependencies(lines) ==
    LET trimmed == [i \in 1..Len(lines) |-> Trim(lines[i])]
        kept(line) == line # <<>> /\ ~StartsWith(line, <<"#">>)
        toDependency(line) ==
            LET parts == Split(line, EqEq)
            IN  Dependency(parts[1],
                           IF Len(parts) >= 2 THEN parts[2] ELSE Undef)
        keptLines == SelectSeq(trimmed, kept)
    IN  [i \in 1..Len(keptLines) |-> toDependency(keptLines[i])]

\* the TOML parser is an empty function: it returns undefined
parseTOML(content) == Undef

\* pyprojectToml?.tool?.poetry?.dependencies, as a list of entries
PoetryDependencies(toml) ==
    IF toml \in {NULL, Undef} THEN <<>> ELSE toml

analyzeDependencies(pkg, reqs, toml) ==
    LET allDependencies == SpreadMerge(pkg.dependencies, pkg.devDependencies)
        fromPackageJson ==
            [i \in 1..Len(allDependencies) |->
                Dependency(allDependencies[i].name,
                           allDependencies[i].version)]
        fromRequirements ==
            IF reqs # NULL /\ reqs # <<>>
            THEN RequirementsDependencies(reqs) ELSE <<>>
        poetry == PoetryDependencies(toml)
        fromPyproject ==
            [i \in 1..Len(poetry) |->
                Dependency(poetry[i].name, poetry[i].version)]
    IN  fromPackageJson \o fromRequirements \o fromPyproject

\* obj?.[key]
Lookup(obj, key) ==
    IF \E i \in 1..Len(obj) : obj[i].name = key
    THEN obj[CHOOSE i \in 1..Len(obj) : obj[i].name = key].version
    ELSE Undef

detectFramework(pkg, toml) ==
    LET hasViteInDeps ==
            Truthy(Lookup(pkg.dependencies, Vite))
            \/ Truthy(Lookup(pkg.devDependencies, Vite))
        hasVitePluginReact ==
            Truthy(Lookup(pkg.dependencies, VitePluginReact))
            \/ Truthy(Lookup(pkg.devDependencies, VitePluginReact))
    IN  IF hasViteInDeps \/ hasVitePluginReact THEN "vite"
        ELSE IF Truthy(Lookup(PoetryDependencies(toml), Vite))
        THEN "vite"
        ELSE "unknown"

---------------------------------------------------------------------------
(* ProjectAnalyzer: configuration scanner *)

\* a chain of  if (await fs.pathExists(c)) return c;  over the candidates,
\* ending in  return null : the value returned and the paths probed
ProbeInOrder(candidates) ==
    LET hits == {i \in 1..Len(candidates) : pathExists(candidates[i])}
    IN  IF hits = {}
        THEN [value |-> NULL, probed |-> candidates]
        ELSE LET first == CHOOSE i \in hits : \A j \in hits : i <= j
             IN  [value |-> candidates[first],
                  probed |-> SubSeq(candidates, 1, first)]

findTsConfig == ProbeInOrder(<<InProject(TsconfigName)>>)

findPythonConfig == ProbeInOrder(<<InProject(PyprojectTomlName)>>)

findTestConfig ==
    ProbeInOrder(<<InProject(JestConfigName), InProject(PytestIniName)>>)

findLintConfig == ProbeInOrder(<<InProject(EslintrcName)>>)

findPrettierConfig == ProbeInOrder(<<InProject(PrettierrcName)>>)

GithubWorkflowsName == PathJoin(GithubDirName, WorkflowsDirName)

\* the single-file convention probed before the workflow directory
findCiConfig_gitlabFirst ==
    ProbeInOrder(<<InProject(GitlabCiName), InProject(GithubWorkflowsName)>>)

findCiConfig ==
    ProbeInOrder(<<InProject(GithubWorkflowsName), InProject(GitlabCiName)>>)

findContainerizationConfig == ProbeInOrder(<<InProject(DockerfileName)>>)

configPatterns ==
    <<ViteConfigTsName, ViteConfigJsName, TsconfigName, EnvName, EnvStarName>>

\* findConfigFiles keeping its configFiles array from one call to the next
findConfigFiles_accumulating(customConfigFiles) ==
    LET patterns ==
            configPatterns
            \o (IF customConfigFiles = None THEN <<>>
                ELSE customConfigFiles[1])
        present(pattern) == pathExists(InProject(pattern))
        earlier == IF scans = <<>> THEN <<>>
                   ELSE scans[Len(scans)].result.configFiles
    IN  [value |-> earlier \o SelectSeq(patterns, present),
         probed |-> [i \in 1..Len(patterns) |-> InProject(patterns[i])]]

\* findConfigFiles taking the custom names without testing that they exist
findConfigFiles_unchecked(customConfigFiles) ==
    LET custom == IF customConfigFiles = None THEN <<>>
                  ELSE customConfigFiles[1]
        present(pattern) == pathExists(InProject(pattern))
    IN  [value |-> SelectSeq(configPatterns, present) \o custom,
         probed |-> [i \in 1..Len(configPatterns) |->
                        InProject(configPatterns[i])]]

\* customConfigFiles is None (undefined) or Some(list of names)
findConfigFiles(customConfigFiles) ==
    LET patterns ==
            configPatterns
            \o (IF customConfigFiles = None THEN <<>>
                ELSE customConfigFiles[1])
        present(pattern) == pathExists(InProject(pattern))
    IN  [value |-> SelectSeq(patterns, present),
         probed |-> [i \in 1..Len(patterns) |-> InProject(patterns[i])]]

ProbeOps(paths) == [i \in 1..Len(paths) |-> Op("pathExists", paths[i])]

\* the operations of lines 54-61, in order
ScanOps(customConfigFiles) ==
    ProbeOps(findTsConfig.probed \o findPythonConfig.probed
             \o findTestConfig.probed \o findLintConfig.probed
             \o findPrettierConfig.probed \o findCiConfig.probed
             \o findContainerizationConfig.probed
             \o findConfigFiles(customConfigFiles).probed)

\* the object performBasicAnalysis returns
BasicAnalysisRecord(pkg, toml, deps, customConfigFiles) ==
    [framework |-> detectFramework(pkg, toml),
     dependencies |-> deps,
     tsConfig |-> findTsConfig.value,
     pythonConfig |-> findPythonConfig.value,
     testConfig |-> findTestConfig.value,
     lintConfig |-> findLintConfig.value,
     prettierConfig |-> findPrettierConfig.value,
     ciConfig |-> findCiConfig.value,
     containerizationConfig |-> findContainerizationConfig.value,
     configFiles |-> findConfigFiles(customConfigFiles).value]

\* the final analysis keeping the part of the advisory block that was
\* obtained before the oracle failed
FinalAnalysis_partial(basic, ai) ==
    [framework |-> basic.framework,
     dependencies |-> basic.dependencies,
     tsConfig |-> basic.tsConfig,
     pythonConfig |-> basic.pythonConfig,
     testConfig |-> basic.testConfig,
     lintConfig |-> basic.lintConfig,
     prettierConfig |-> basic.prettierConfig,
     ciConfig |-> basic.ciConfig,
     containerizationConfig |-> basic.containerizationConfig,
     configFiles |-> basic.configFiles,
     aiSuggestions |->
        IF ai # None \/ routingAnalysis = None THEN ai
        ELSE Some([routing |-> routingAnalysis[1]]),
     routingStructure |->
        IF ai = None THEN <<>> ELSE ai[1].routing.suggestedNextjsStructure]

\* { ...basicAnalysis, aiSuggestions, routingStructure }
FinalAnalysis(basic, ai) ==
    [framework |-> basic.framework,
     dependencies |-> basic.dependencies,
     tsConfig |-> basic.tsConfig,
     pythonConfig |-> basic.pythonConfig,
     testConfig |-> basic.testConfig,
     lintConfig |-> basic.lintConfig,
     prettierConfig |-> basic.prettierConfig,
     ciConfig |-> basic.ciConfig,
     containerizationConfig |-> basic.containerizationConfig,
     configFiles |-> basic.configFiles,
     aiSuggestions |-> ai,
     routingStructure |->
        IF ai = None THEN <<>> ELSE ai[1].routing.suggestedNextjsStructure]

---------------------------------------------------------------------------
(* AIAnalyzer: dependency classifier *)

findViteSpecificDeps(pkg) ==
    LET deps == SpreadMerge(pkg.dependencies, pkg.devDependencies)
        isViteSpecific(dep) ==
            Includes(dep, Vite) \/ Includes(dep, Rollup)
    IN  SelectSeq(Keys(deps), isViteSpecific)

\* the complement taken of the names that contain 'vite' alone
findNextCompatibleDeps_viteOnly(pkg) ==
    LET deps == SpreadMerge(pkg.dependencies, pkg.devDependencies)
        notVite(dep) == ~Includes(dep, Vite)
    IN  SelectSeq(Keys(deps), notVite)

findNextCompatibleDeps(pkg) ==
    LET deps == SpreadMerge(pkg.dependencies, pkg.devDependencies)
        notViteSpecific(dep) ==
            ~ArrayIncludes(findViteSpecificDeps(pkg), dep)
    IN  SelectSeq(Keys(deps), notViteSpecific)

AIAnalyzer_analyzeDependencies(pkg) ==
    [viteSpecific |-> findViteSpecificDeps(pkg),
     nextCompatible |-> findNextCompatibleDeps(pkg),
     requiresMigration |-> <<>>]

---------------------------------------------------------------------------
(* AIAnalyzer: source files and oracle replies *)

\* every project-relative name of the modelled trees, in the order the
\* directory walk of glob meets them
GlobOrder ==
    <<EnvName, EnvStarName, EslintrcName, GithubWorkflowsName, GitlabCiName,
      PrettierrcName, DockerfileName, SrcA, SrcB, CustomConfigName, SrcDist,
      JestConfigName, PackageJsonName, PyprojectTomlName, PytestIniName,
      SrcReactRouter, RequirementsTxtName, TsconfigName, ViteConfigJsName,
      ViteConfigTsName>>

\* '**/*.{js,jsx,ts,tsx}'
MatchesPattern(name) ==
    EndsWith(name, ExtJs) \/ EndsWith(name, ExtJsx)
    \/ EndsWith(name, ExtTs) \/ EndsWith(name, ExtTsx)

\* ignore: ['**/node_modules/**', '**/dist/**']
Ignored(name) ==
    \/ StartsWith(name, NodeModulesDir)
    \/ Includes(name, <<"/">> \o NodeModulesDir)
    \/ StartsWith(name, DistDir)
    \/ Includes(name, <<"/">> \o DistDir)

getRelevantFiles ==
    LET relevant(name) ==
            pathExists(InProject(name)) /\ MatchesPattern(name)
            /\ ~Ignored(name)
    IN  SelectSeq(GlobOrder, relevant)

detectRoutingType(cb) ==
    IF \E file \in DOMAIN cb : Includes(file, ReactRouterToken)
    THEN "react-router" ELSE "unknown"

extractRoutes(cb) == <<>>

\* content.split('\n').filter(line => line.trim().startsWith('-'))
parseSuggestedStructure(content) ==
    LET bullet(line) == StartsWith(Trim(line), <<"-">>)
    IN  SelectSeq(content, bullet)

Digits == {"0", "1", "2", "3", "4", "5", "6", "7", "8", "9"}

\* content.split('\n').filter(line => /^\d+\./.test(line))
parseMigrationSteps(content) ==
    LET numbered(line) ==
            \E k \in 1..(Len(line) - 1) :
                /\ \A i \in 1..k : line[i] \in Digits
                /\ line[k + 1] = "."
    IN  SelectSeq(content, numbered)

RECURSIVE JoinLines(_)
JoinLines(ls) ==
    IF ls = <<>> THEN <<>>
    ELSE IF Len(ls) = 1 THEN ls[1]
    ELSE ls[1] \o <<"\n">> \o JoinLines(Tail(ls))

\* content.match(/```js\n([\s\S]*?)\n```/) : the leftmost opening fence
\* that a closing fence follows, up to the nearest closing fence
parseConfigSuggestion(content) ==
    LET closes(i) == {j \in (i + 2)..Len(content) :
                         StartsWith(content[j], Fence)}
        opens == {i \in 1..Len(content) :
                     EndsWith(content[i], FenceJs) /\ closes(i) # {}}
    IN  IF opens = {} THEN <<>>
        ELSE LET i == CHOOSE k \in opens : \A m \in opens : k <= m
                 j == CHOOSE k \in closes(i) : \A m \in closes(i) : k <= m
             IN  JoinLines(SubSeq(content, i + 1, j - 1))

\* what anthropic.messages.create does: it rejects, or resolves to a
\* message whose content is a list of blocks
Rejects(err) == [kind |-> "rejects", error |-> err, content |-> <<>>]
Resolves(blocks) == [kind |-> "resolves", error |-> "none", content |-> blocks]

OracleOutcomes ==
    {Rejects("AuthenticationError"), Rejects("NetworkError"),
     Resolves(<<>>),
     Resolves(<<[text |-> ReplyFull]>>),
     Resolves(<<[text |-> ReplyPlain]>>)}

\* what a messages.create call can come to: without an API key the client
\* has nothing to authenticate with
AvailableOutcomes ==
    IF apiKey THEN OracleOutcomes ELSE {Rejects("AuthenticationError")}

\* the oracle call of analyzeRouting / analyzeConfiguration throws
OracleThrows(o) == o.kind = "rejects" \/ o.content = <<>>

OracleError(o) == IF o.kind = "rejects" THEN o.error ELSE "TypeError"

RoutingAnalysis(cb, content) ==
    [type |-> detectRoutingType(cb),
     routes |-> extractRoutes(cb),
     suggestedNextjsStructure |-> parseSuggestedStructure(content),
     migrationSteps |-> parseMigrationSteps(content)]

convertToAIAnalysis(routing, deps, suggestedNextConfig) ==
    [routing |-> routing,
     dependencies |-> deps,
     configuration |-> [suggestedNextConfig |-> suggestedNextConfig]]

---------------------------------------------------------------------------
(* MigrationPlanner *)

Task(id, description) == [id |-> id, description |-> description]

Step(id, title, tasks, estimatedTime) ==
    [id |-> id, title |-> title, tasks |-> tasks,
     estimatedTime |-> estimatedTime]

ScaffoldStep ==
    Step("1", "Setup Next.js Project",
         <<Task("1.1", "Create new Next.js project")>>, "1 hour")
TsStep ==
    Step("2", "Migrate TypeScript Configuration",
         <<Task("2.1", "Update tsconfig.json")>>, "30 minutes")
TestStep ==
    Step("3", "Migrate Testing Setup",
         <<Task("3.1", "Update testing configuration"),
           Task("3.2", "Migrate existing tests")>>, "2 hours")
LintStep ==
    Step("4", "Migrate Linting Configuration",
         <<Task("4.1", "Update linting config")>>, "30 minutes")
PrettierStep ==
    Step("5", "Migrate Formatting Configuration",
         <<Task("5.1", "Update Prettier config")>>, "15 minutes")
CiStep ==
    Step("6", "Migrate CI/CD Pipeline",
         <<Task("6.1", "Update CI/CD config")>>, "1 hour")
ContainerStep ==
    Step("7", "Migrate Containerization Setup",
         <<Task("7.1", "Update Dockerfile")>>, "1 hour")

\* if (cond) { steps.push(step) }
PushIf(cond, step) == IF cond THEN <<step>> ELSE <<>>

\* the CI step pushed before the formatter step
generateSteps_ciFirst(a) ==
    <<ScaffoldStep>>
    \o PushIf(Truthy(a.tsConfig), TsStep)
    \o PushIf(Truthy(a.testConfig), TestStep)
    \o PushIf(Truthy(a.lintConfig), LintStep)
    \o PushIf(Truthy(a.ciConfig), CiStep)
    \o PushIf(Truthy(a.prettierConfig), PrettierStep)
    \o PushIf(Truthy(a.containerizationConfig), ContainerStep)

\* a step pushed for pythonConfig as well
generateSteps_withPython(a) ==
    <<ScaffoldStep>>
    \o PushIf(Truthy(a.tsConfig), TsStep)
    \o PushIf(Truthy(a.pythonConfig),
              Step("8", "Migrate Python Configuration",
                   <<Task("8.1", "Update pyproject.toml")>>, "1 hour"))
    \o PushIf(Truthy(a.testConfig), TestStep)
    \o PushIf(Truthy(a.lintConfig), LintStep)
    \o PushIf(Truthy(a.prettierConfig), PrettierStep)
    \o PushIf(Truthy(a.ciConfig), CiStep)
    \o PushIf(Truthy(a.containerizationConfig), ContainerStep)

\* step ids numbered by position in the plan
generateSteps_renumbered(a) ==
    LET steps ==
            <<ScaffoldStep>>
            \o PushIf(Truthy(a.tsConfig), TsStep)
            \o PushIf(Truthy(a.testConfig), TestStep)
            \o PushIf(Truthy(a.lintConfig), LintStep)
            \o PushIf(Truthy(a.prettierConfig), PrettierStep)
            \o PushIf(Truthy(a.ciConfig), CiStep)
            \o PushIf(Truthy(a.containerizationConfig), ContainerStep)
        idAt == <<"1", "2", "3", "4", "5", "6", "7">>
    IN  [i \in 1..Len(steps) |-> [steps[i] EXCEPT !.id = idAt[i]]]

generateSteps(a) ==
    <<ScaffoldStep>>
    \o PushIf(Truthy(a.tsConfig), TsStep)
    \o PushIf(Truthy(a.testConfig), TestStep)
    \o PushIf(Truthy(a.lintConfig), LintStep)
    \o PushIf(Truthy(a.prettierConfig), PrettierStep)
    \o PushIf(Truthy(a.ciConfig), CiStep)
    \o PushIf(Truthy(a.containerizationConfig), ContainerStep)

calculateEstimatedTime == "8 hours"

calculateEstimatedCost == 1000

determineComplexity == "Medium"

generateMigrationPlan(a) ==
    [steps |-> generateSteps(a),
     estimatedTime |-> calculateEstimatedTime,
     estimatedCost |-> calculateEstimatedCost,
     complexity |-> determineComplexity]

---------------------------------------------------------------------------
(* Calls *)

Log(newOps) == ops' = ops \o newOps

\* the call rejects with err
Reject(err) ==
    /\ outcome' = "rejected"
    /\ error' = err
    /\ pc' = "done"

\* analyzeProject without the isValidProject check
AnalyzeProject_unchecked ==
    /\ pc = "idle"
    /\ \E skipAI \in BOOLEAN, config \in {None, Some(<<CustomConfigName>>)} :
          options' = [config |-> config, skipAI |-> skipAI]
    /\ entry' = "analyzeProject"
    /\ pc' = "readPackageJson"
    /\ UNCHANGED <<disk, packageJson, requirementsTxt, pyprojectToml,
                   dependencies, basicAnalysis, toRead, codebase,
                   codebasePackageJson, routingAnalysis, dependencyAnalysis,
                   aiAnalysis, ops, outcome, error, analysis, plan>>
    /\ UNCHANGED <<rewriterVars, scans, commandVars>>

\* ProjectAnalyzer.analyzeProject(opts), lines 15-18: isValidProject
AnalyzeProjectBegin(opts) ==
    /\ pc = "idle"
    /\ options' = opts
    /\ entry' = "analyzeProject"
    /\ Log(<<Op("pathExists", PackageJsonPath)>>)
    /\ IF pathExists(PackageJsonPath)
       THEN pc' = "readPackageJson" /\ UNCHANGED <<outcome, error>>
       ELSE Reject("Invalid project directory")
    /\ UNCHANGED <<disk, packageJson, requirementsTxt, pyprojectToml,
                   dependencies, basicAnalysis, toRead, codebase,
                   codebasePackageJson, routingAnalysis, dependencyAnalysis,
                   aiAnalysis, analysis, plan>>
    /\ UNCHANGED <<rewriterVars, scans>>

\* a caller invokes ProjectAnalyzer.analyzeProject itself
AnalyzeProject ==
    /\ \E skipAI \in BOOLEAN, config \in {None, Some(<<CustomConfigName>>)} :
          AnalyzeProjectBegin([config |-> config, skipAI |-> skipAI])
    /\ UNCHANGED commandVars

\* readPackageJson falling back to an empty manifest when the file
\* cannot be parsed
ReadPackageJson_lenient ==
    /\ pc = "readPackageJson"
    /\ Log(<<Op("readJson", PackageJsonPath)>>)
    /\ packageJson' =
          IF JSONParse(FileContent(PackageJsonPath)) = None
          THEN JSONParse(EmptyObjectText)
          ELSE JSONParse(FileContent(PackageJsonPath))
    /\ pc' = "readSecondaryManifests"
    /\ UNCHANGED <<disk, entry, options, requirementsTxt, pyprojectToml,
                   dependencies, basicAnalysis, toRead, codebase,
                   codebasePackageJson, routingAnalysis, dependencyAnalysis,
                   aiAnalysis, outcome, error, analysis, plan>>
    /\ UNCHANGED <<rewriterVars, scans, commandVars>>

\* performBasicAnalysis, line 48: readPackageJson
ReadPackageJson ==
    /\ pc = "readPackageJson"
    /\ Log(<<Op("readJson", PackageJsonPath)>>)
    /\ IF readFileFails(PackageJsonPath)
       THEN Reject("ReadError") /\ UNCHANGED packageJson
       ELSE IF JSONParse(FileContent(PackageJsonPath)) = None
       THEN Reject("SyntaxError") /\ UNCHANGED packageJson
       ELSE /\ packageJson' = JSONParse(FileContent(PackageJsonPath))
            /\ pc' = "readSecondaryManifests"
            /\ UNCHANGED <<outcome, error>>
    /\ UNCHANGED <<disk, entry, options, requirementsTxt, pyprojectToml,
                   dependencies, basicAnalysis, toRead, codebase,
                   codebasePackageJson, routingAnalysis, dependencyAnalysis,
                   aiAnalysis, analysis, plan>>
    /\ UNCHANGED <<rewriterVars, scans, commandVars>>

\* performBasicAnalysis, lines 49-50: readRequirementsTxt, readPyprojectToml
ReadSecondaryManifests ==
    LET reqPath == InProject(RequirementsTxtName)
        tomlPath == InProject(PyprojectTomlName)
        reqOps == <<Op("pathExists", reqPath)>>
                  \o (IF pathExists(reqPath)
                      THEN <<Op("readFile", reqPath)>> ELSE <<>>)
        tomlOps == <<Op("pathExists", tomlPath)>>
                   \o (IF pathExists(tomlPath)
                       THEN <<Op("readFile", tomlPath)>> ELSE <<>>)
    IN  /\ pc = "readSecondaryManifests"
        /\ IF pathExists(reqPath) /\ readFileFails(reqPath)
           THEN /\ Log(reqOps)
                /\ Reject("ReadError")
                /\ UNCHANGED <<requirementsTxt, pyprojectToml>>
           ELSE IF pathExists(tomlPath) /\ readFileFails(tomlPath)
           THEN /\ Log(reqOps \o tomlOps)
                /\ Reject("ReadError")
                /\ UNCHANGED <<requirementsTxt, pyprojectToml>>
           ELSE /\ Log(reqOps \o tomlOps)
                /\ requirementsTxt' =
                      IF pathExists(reqPath)
                      THEN FileContent(reqPath).lines ELSE NULL
                /\ pyprojectToml' =
                      IF pathExists(tomlPath)
                      THEN parseTOML(FileContent(tomlPath)) ELSE NULL
                /\ pc' = "analyzeDependencies"
                /\ UNCHANGED <<outcome, error>>
        /\ UNCHANGED <<disk, entry, options, packageJson, dependencies,
                       basicAnalysis, toRead, codebase, codebasePackageJson,
                       routingAnalysis, dependencyAnalysis, aiAnalysis,
                       analysis, plan>>
        /\ UNCHANGED <<rewriterVars, scans, commandVars>>

\* performBasicAnalysis, line 52: analyzeDependencies
AnalyzeDependencies ==
    /\ pc = "analyzeDependencies"
    /\ dependencies' =
          analyzeDependencies(packageJson[1], requirementsTxt, pyprojectToml)
    /\ pc' = "scanConfigs"
    /\ UNCHANGED <<disk, entry, options, packageJson, requirementsTxt,
                   pyprojectToml, basicAnalysis, toRead, codebase,
                   codebasePackageJson, routingAnalysis, dependencyAnalysis,
                   aiAnalysis, ops, outcome, error, analysis, plan>>
    /\ UNCHANGED <<rewriterVars, scans, commandVars>>

\* performBasicAnalysis, lines 54-75: the find*Config probes, the config
\* file inventory and the returned object
ScanConfigs ==
    /\ pc = "scanConfigs"
    /\ Log(ScanOps(options.config))
    /\ basicAnalysis' =
          Some(BasicAnalysisRecord(packageJson[1], pyprojectToml,
                                   dependencies, options.config))
    /\ pc' = IF options.skipAI THEN "combine" ELSE "analyzeCodebase"
    /\ UNCHANGED <<disk, entry, options, packageJson, requirementsTxt,
                   pyprojectToml, dependencies, toRead, codebase,
                   codebasePackageJson, routingAnalysis, dependencyAnalysis,
                   aiAnalysis, outcome, error, analysis, plan>>
    /\ UNCHANGED <<rewriterVars, scans, commandVars>>

\* analyzeProject without the try/catch around analyzeCodebase
AIThrow_uncaught(err) == Reject(err)

\* an error thrown inside analyzeCodebase: rethrown by its catch block
\* (lines 54-57); analyzeProject catches it (lines 30-33) and goes on with
\* aiAnalysis undefined, a direct caller gets the rejection
AIThrow(err) ==
    IF entry' = "analyzeProject"
    THEN pc' = "combine" /\ UNCHANGED <<outcome, error>>
    ELSE Reject(err)

\* AIAnalyzer.analyzeCodebase, lines 18-30: directory check, getRelevantFiles
AnalyzeCodebaseBegin ==
    /\ IF ~pathExists(ProjectPath)
       THEN /\ Log(<<Op("pathExists", ProjectPath)>>)
            /\ AIThrow("ENOENT")
            /\ UNCHANGED toRead
       ELSE /\ Log(<<Op("pathExists", ProjectPath), Op("glob", ProjectPath)>>)
            /\ toRead' = getRelevantFiles
            /\ pc' = "readCodebaseFiles"
            /\ UNCHANGED <<outcome, error>>
    /\ UNCHANGED <<disk, options, packageJson, requirementsTxt,
                   pyprojectToml, dependencies, basicAnalysis, codebase,
                   codebasePackageJson, routingAnalysis, dependencyAnalysis,
                   aiAnalysis, analysis, plan>>
    /\ UNCHANGED <<rewriterVars, scans, commandVars>>

\* analyzeProject, line 28: the call of analyzeCodebase
AnalyzeCodebaseNested ==
    /\ pc = "analyzeCodebase"
    /\ UNCHANGED entry
    /\ AnalyzeCodebaseBegin

\* a caller invokes AIAnalyzer.analyzeCodebase itself
AnalyzeCodebase ==
    /\ pc = "idle"
    /\ entry' = "analyzeCodebase"
    /\ AnalyzeCodebaseBegin

\* readCodebaseFiles without the try/catch around readFile
ReadCodebaseFile_uncaught ==
    /\ pc = "readCodebaseFiles"
    /\ toRead # <<>>
    /\ UNCHANGED entry
    /\ LET file == Head(toRead)
           filePath == PathJoin(ProjectPath, file)
       IN  /\ Log(<<Op("readFile", filePath)>>)
           /\ IF readFileFails(filePath)
              THEN AIThrow("ReadError") /\ UNCHANGED <<codebase, toRead>>
              ELSE /\ codebase' = (file :> FileContent(filePath)) @@ codebase
                   /\ toRead' = Tail(toRead)
                   /\ UNCHANGED <<pc, outcome, error>>
    /\ UNCHANGED <<disk, options, packageJson, requirementsTxt,
                   pyprojectToml, dependencies, basicAnalysis,
                   codebasePackageJson, routingAnalysis, dependencyAnalysis,
                   aiAnalysis, analysis, plan>>
    /\ UNCHANGED <<rewriterVars, scans, commandVars>>

\* readCodebaseFiles, lines 71-79: one turn of the loop
ReadCodebaseFile ==
    /\ pc = "readCodebaseFiles"
    /\ toRead # <<>>
    /\ LET file == Head(toRead)
           filePath == PathJoin(ProjectPath, file)
       IN  /\ Log(<<Op("readFile", filePath)>>)
           /\ codebase' =
                 IF readFileFails(filePath) THEN codebase
                 ELSE (file :> FileContent(filePath)) @@ codebase
    /\ toRead' = Tail(toRead)
    /\ UNCHANGED <<disk, pc, entry, options, packageJson, requirementsTxt,
                   pyprojectToml, dependencies, basicAnalysis,
                   codebasePackageJson, routingAnalysis, dependencyAnalysis,
                   aiAnalysis, outcome, error, analysis, plan>>
    /\ UNCHANGED <<rewriterVars, scans, commandVars>>

\* analyzeCodebase, line 36: analyzeRouting
AnalyzeRouting ==
    /\ pc = "readCodebaseFiles"
    /\ toRead = <<>>
    /\ Log(<<Op("oracle", <<"routing">>)>>)
    /\ UNCHANGED entry
    /\ \E o \in AvailableOutcomes :
          IF OracleThrows(o)
          THEN AIThrow(OracleError(o)) /\ UNCHANGED routingAnalysis
          ELSE /\ routingAnalysis' =
                     Some(RoutingAnalysis(codebase, o.content[1].text))
               /\ pc' = "aiAnalyzeDependencies"
               /\ UNCHANGED <<outcome, error>>
    /\ UNCHANGED <<disk, options, packageJson, requirementsTxt,
                   pyprojectToml, dependencies, basicAnalysis, toRead,
                   codebase, codebasePackageJson, dependencyAnalysis,
                   aiAnalysis, analysis, plan>>
    /\ UNCHANGED <<rewriterVars, scans, commandVars>>

\* codebase['package.json'] || '{}'
CodebaseManifestText(cb) ==
    IF PackageJsonName \in DOMAIN cb THEN cb[PackageJsonName]
    ELSE EmptyObjectText

\* analyzeCodebase, line 39: AIAnalyzer.analyzeDependencies
AIAnalyzeDependencies ==
    /\ pc = "aiAnalyzeDependencies"
    /\ UNCHANGED entry
    /\ LET parsed == JSONParse(CodebaseManifestText(codebase))
       IN  IF parsed = None
           THEN /\ AIThrow("SyntaxError")
                /\ UNCHANGED <<codebasePackageJson, dependencyAnalysis>>
           ELSE /\ codebasePackageJson' = parsed
                /\ dependencyAnalysis' =
                      Some(AIAnalyzer_analyzeDependencies(parsed[1]))
                /\ pc' = "analyzeConfiguration"
                /\ UNCHANGED <<outcome, error>>
    /\ UNCHANGED <<disk, options, packageJson, requirementsTxt,
                   pyprojectToml, dependencies, basicAnalysis, toRead,
                   codebase, routingAnalysis, aiAnalysis, ops, analysis,
                   plan>>
    /\ UNCHANGED <<rewriterVars, scans, commandVars>>

\* analyzeCodebase, lines 42-53: analyzeConfiguration, convertToAIAnalysis
AnalyzeConfiguration ==
    /\ pc = "analyzeConfiguration"
    /\ Log(<<Op("oracle", <<"configuration">>)>>)
    /\ UNCHANGED entry
    /\ \E o \in AvailableOutcomes :
          IF OracleThrows(o)
          THEN AIThrow(OracleError(o)) /\ UNCHANGED aiAnalysis
          ELSE /\ aiAnalysis' =
                     Some(convertToAIAnalysis(
                              routingAnalysis[1], dependencyAnalysis[1],
                              parseConfigSuggestion(o.content[1].text)))
               /\ IF entry = "analyzeProject"
                  THEN pc' = "combine" /\ outcome' = outcome
                  ELSE pc' = "done" /\ outcome' = "returned"
               /\ UNCHANGED error
    /\ UNCHANGED <<disk, options, packageJson, requirementsTxt,
                   pyprojectToml, dependencies, basicAnalysis, toRead,
                   codebase, codebasePackageJson, routingAnalysis,
                   dependencyAnalysis, analysis, plan>>
    /\ UNCHANGED <<rewriterVars, scans, commandVars>>

\* analyzeProject, lines 36-44: the final analysis is returned
CombineResults ==
    /\ pc = "combine"
    /\ analysis' = Some(FinalAnalysis(basicAnalysis[1], aiAnalysis))
    /\ outcome' = "returned"
    /\ pc' = "returned"
    /\ UNCHANGED <<disk, entry, options, packageJson, requirementsTxt,
                   pyprojectToml, dependencies, basicAnalysis, toRead,
                   codebase, codebasePackageJson, routingAnalysis,
                   dependencyAnalysis, aiAnalysis, ops, error, plan>>
    /\ UNCHANGED <<rewriterVars, scans, commandVars>>

\* new MigrationPlanner(analysis).generateMigrationPlan()
GenerateMigrationPlan ==
    /\ pc = "returned"
    /\ plan' = Some(generateMigrationPlan(analysis[1]))
    /\ pc' = "done"
    /\ UNCHANGED <<disk, entry, options, packageJson, requirementsTxt,
                   pyprojectToml, dependencies, basicAnalysis, toRead,
                   codebase, codebasePackageJson, routingAnalysis,
                   dependencyAnalysis, aiAnalysis, ops, outcome, error,
                   analysis>>
    /\ UNCHANGED <<rewriterVars, scans, commandVars>>

\* the classifier applied to a parsed manifest
ClassifyDependencies ==
    /\ pc = "classify"
    /\ dependencyAnalysis' =
          Some(AIAnalyzer_analyzeDependencies(codebasePackageJson[1]))
    /\ pc' = "done"
    /\ UNCHANGED <<disk, entry, options, packageJson, requirementsTxt,
                   pyprojectToml, dependencies, basicAnalysis, toRead,
                   codebase, codebasePackageJson, routingAnalysis,
                   aiAnalysis, ops, outcome, error, analysis, plan>>
    /\ UNCHANGED <<rewriterVars, scans, commandVars>>

---------------------------------------------------------------------------
(* Rewriters: paths and the file tree *)

Slash == <<"/">>

\* Array.prototype.join(sep)
RECURSIVE Join(_, _)
Join(parts, sep) ==
    IF parts = <<>> THEN <<>>
    ELSE IF Len(parts) = 1 THEN parts[1]
    ELSE parts[1] \o sep \o Join(Tail(parts), sep)

NonEmpty(s) == s # <<>>

\* path.normalize over the segments of an absolute path: empty and "."
\* segments vanish, a ".." segment drops the segment before it
RECURSIVE NormalizeSegments(_, _)
NormalizeSegments(kept, todo) ==
    IF todo = <<>> THEN kept
    ELSE IF Head(todo) = <<>> \/ Head(todo) = <<".">>
    THEN NormalizeSegments(kept, Tail(todo))
    ELSE IF Head(todo) = <<".", ".">>
    THEN NormalizeSegments(IF kept = <<>> THEN <<>>
                           ELSE SubSeq(kept, 1, Len(kept) - 1), Tail(todo))
    ELSE NormalizeSegments(Append(kept, Head(todo)), Tail(todo))

PathSegments(p) == NormalizeSegments(<<>>, Split(p, Slash))

PathOfSegments(segs) == Slash \o Join(segs, Slash)

\* path.join(...parts) with an absolute first part: the non-empty parts
\* joined by "/" and normalized
PathJoinAll(parts) ==
    PathOfSegments(PathSegments(Join(SelectSeq(parts, NonEmpty), Slash)))

\* path.dirname
PathDirname(p) ==
    LET segs == PathSegments(p)
    IN  IF segs = <<>> THEN Slash
        ELSE PathOfSegments(SubSeq(segs, 1, Len(segs) - 1))

\* the directories a path lies in, outermost first, and the path itself
PathPrefixes(p) ==
    LET segs == PathSegments(p)
    IN  [k \in 1..Len(segs) |-> PathOfSegments(SubSeq(segs, 1, k))]

DirEntry == [kind |-> "dir"]

TreeHas(t, p) == p \in DOMAIN t

IsDir(t, p) == TreeHas(t, p) /\ t[p].kind = "dir"

\* the state of a chain of fs-extra calls: the tree, the error that ended
\* the chain, and the calls made
FsStart(t) == [tree |-> t, error |-> "none", ops |-> <<>>]

\* fs.ensureDir(p): creates p and the missing directories above it;
\* rejects when a file is in the way
ThenEnsureDir(r, p) ==
    LET dirs == PathPrefixes(p)
        blocked == \E k \in 1..Len(dirs) :
                      TreeHas(r.tree, dirs[k]) /\ ~IsDir(r.tree, dirs[k])
        made == [q \in Range(dirs) |-> DirEntry]
    IN  IF r.error # "none" THEN r
        ELSE [r EXCEPT
                 !.tree = IF blocked THEN r.tree ELSE r.tree @@ made,
                 !.error = IF blocked THEN "ENOTDIR" ELSE "none",
                 !.ops = Append(r.ops, Op("ensureDir", p))]

\* fs.writeFile(p, content): creates or replaces the file; rejects when
\* the directory is missing or p is a directory
ThenWriteFile(r, p, content) ==
    LET err == IF ~IsDir(r.tree, PathDirname(p)) THEN "ENOENT"
               ELSE IF IsDir(r.tree, p) THEN "EISDIR" ELSE "none"
    IN  IF r.error # "none" THEN r
        ELSE [r EXCEPT
                 !.tree = IF err = "none" THEN (p :> content) @@ r.tree
                          ELSE r.tree,
                 !.error = err,
                 !.ops = Append(r.ops, Op("writeFile", p))]

\* fs.readFile(p): rejects when p is missing or a directory
ThenReadFile(r, p) ==
    LET err == IF ~TreeHas(r.tree, p) THEN "ENOENT"
               ELSE IF IsDir(r.tree, p) THEN "EISDIR" ELSE "none"
    IN  IF r.error # "none" THEN r
        ELSE [r EXCEPT !.error = err,
                       !.ops = Append(r.ops, Op("readFile", p))]

\* a line of console output
Line(level, text, about) == [level |-> level, text |-> text, about |-> about]

\* a rewriter call settles: it returns or rejects with err, having written
\* the lines of console' to the console
Settle(name, dry, before, after, err) ==
    /\ calls' = Append(calls, [name |-> name, dryRun |-> dry,
                               outcome |-> IF err = "none" THEN "returned"
                                           ELSE "rejected",
                               before |-> before, after |-> after,
                               console |-> console'])
    /\ outcome' = IF err = "none" THEN "returned" ELSE "rejected"
    /\ error' = err
    /\ pc' = "idle"

\* the variables of the analyzers and of the commands, which no rewriter
\* touches
analyzerVars ==
    <<disk, options, packageJson, requirementsTxt, pyprojectToml,
      dependencies, basicAnalysis, toRead, codebase, codebasePackageJson,
      routingAnalysis, dependencyAnalysis, aiAnalysis, analysis, plan,
      scans, commandVars>>

---------------------------------------------------------------------------
(* Rewriters: transformRoutes *)

MaxCalls == 2       \* rewriter calls in a run

SrcAppDir == <<"s","r","c","/","a","p","p">>
PageTsxName == <<"p","a","g","e",".","t","s","x">>
LayoutTsxName == <<"l","a","y","o","u","t",".","t","s","x">>
SrcPagesApiDir == <<"s","r","c","/","p","a","g","e","s","/","a","p","i">>
DotTs == <<".","t","s">>
Colon == <<":">>

\* the app directory of transformRoutes
AppDir == PathJoinAll(<<ProjectPath, SrcAppDir>>)

\* routePath.split('/').filter(Boolean)
RouteSegments(routePath) == SelectSeq(Split(routePath, Slash), NonEmpty)

\* the parameter segment written in braces
NextSegment_braces(segment) ==
    IF StartsWith(segment, Colon)
    THEN <<"{">> \o SubSeq(segment, 2, Len(segment)) \o <<"}">>
    ELSE segment

\* the parameter segment losing its name
NextSegment_anonymous(segment) ==
    IF StartsWith(segment, Colon) THEN <<"[", "]">> ELSE segment

\* segment.startsWith(':') ? `[${segment.slice(1)}]` : segment
NextSegment(segment) ==
    IF StartsWith(segment, Colon)
    THEN <<"[">> \o SubSeq(segment, 2, Len(segment)) \o <<"]">>
    ELSE segment

\* nextPath of transformRoute
NextPath(routePath) ==
    LET segments == RouteSegments(routePath)
    IN  Join([i \in 1..Len(segments) |-> NextSegment(segments[i])], Slash)

\* pagePath of transformRoute
PagePath(routePath) ==
    PathJoinAll(<<ProjectPath, SrcAppDir, NextPath(routePath), PageTsxName>>)

ComponentExtensions == <<<<".","t","s","x">>, <<".","j","s","x">>, <<".","t","s">>, <<".","j","s">>>>
ComponentDirectories == <<<<"s","r","c","/","c","o","m","p","o","n","e","n","t","s">>, <<"s","r","c","/","p","a","g","e","s">>, <<"s","r","c">>>>

\* the paths findComponentFile probes, in order
ComponentCandidates(componentName) ==
    LET n == Len(ComponentExtensions)
    IN  [k \in 1..(Len(ComponentDirectories) * n) |->
            PathJoinAll(<<ProjectPath,
                          ComponentDirectories[((k - 1) \div n) + 1],
                          componentName
                          \o ComponentExtensions[((k - 1) % n) + 1]>>)]

\* findComponentFile looking in src/components only
findComponentFile_componentsOnly(t, componentName) ==
    LET candidates ==
            SubSeq(ComponentCandidates(componentName), 1,
                   Len(ComponentExtensions))
        found == {k \in 1..Len(candidates) : TreeHas(t, candidates[k])}
    IN  IF found = {} THEN NULL
        ELSE candidates[CHOOSE k \in found : \A m \in found : k <= m]

\* findComponentFile: the first candidate that exists, or null
findComponentFile(t, componentName) ==
    LET candidates == ComponentCandidates(componentName)
        found == {k \in 1..Len(candidates) : TreeHas(t, candidates[k])}
    IN  IF found = {} THEN NULL
        ELSE candidates[CHOOSE k \in found : \A m \in found : k <= m]

\* the data fetching patterns of migrateDataFetching, in order
DataFetchingPatterns == <<"useEffect", "componentDidMount">>

\* apiRoutePath of migrateDataFetching
ApiRoutePath(routePath) ==
    PathJoinAll(<<ProjectPath, SrcPagesApiDir, routePath \o DotTs>>)

\* migrateDataFetching from pattern k on: each pattern the component
\* matches writes the API route file; r.content is the migrated content
RECURSIVE MigratePatterns(_, _, _, _)
MigratePatterns(r, original, route, k) ==
    IF k > Len(DataFetchingPatterns) \/ r.error # "none" THEN r
    ELSE IF DataFetchingPatterns[k] \notin original.matches
    THEN MigratePatterns(r, original, route, k + 1)
    ELSE LET api == ApiRoutePath(route.path)
             w == ThenWriteFile(
                     ThenEnsureDir(r, PathDirname(api)), api,
                     [kind |-> "apiRoute",
                      code |-> DataFetchingPatterns[k]])
         IN  MigratePatterns(
                 [w EXCEPT !.content =
                     [@ EXCEPT !.fetches = Append(@, route.path)]],
                 original, route, k + 1)

migrateDataFetching(r, componentContent, route) ==
    MigratePatterns(
        [tree |-> r.tree, error |-> r.error, ops |-> r.ops,
         content |-> [kind |-> "component",
                      name |-> componentContent.name,
                      matches |-> componentContent.matches,
                      fetches |-> <<>>]],
        componentContent, route, 1)

transformComponentToNextjs(content, route) ==
    [kind |-> "page", title |-> route.path, body |-> content]

RootLayoutContent == [kind |-> "layout"]

\* transformRoutes, lines 10-16
TransformRoutes ==
    /\ pc = "idle"
    /\ Len(calls) < MaxCalls
    /\ entry' = "transformRoutes"
    /\ console' = <<>>
    /\ \E dry \in BOOLEAN :
          LET r == IF dry THEN FsStart(tree)
                   ELSE ThenEnsureDir(FsStart(tree), AppDir)
          IN  /\ dryRun' = dry
              /\ tree' = r.tree
              /\ ops' = r.ops
              /\ IF r.error = "none"
                 THEN /\ pc' = "transformRoute"
                      /\ outcome' = "pending"
                      /\ error' = "none"
                      /\ UNCHANGED calls
                 ELSE Settle("transformRoutes", dry, tree, r.tree, r.error)
    /\ treeBefore' = tree
    /\ cursor' = 1
    /\ UNCHANGED <<analyzerVars, codebaseAnalysis>>

\* one turn of the loop of transformRoutes: transformRoute
TransformRoute ==
    /\ pc = "transformRoute"
    /\ entry = "transformRoutes"
    /\ cursor <= Len(codebaseAnalysis.routing.routes)
    /\ LET route == codebaseAnalysis.routing.routes[cursor]
           pagePath == PagePath(route.path)
           componentPath == findComponentFile(tree, route.component)
           read == ThenReadFile(FsStart(tree), componentPath)
           migrated ==
               migrateDataFetching(read, tree[componentPath], route)
           written ==
               ThenWriteFile(
                   ThenEnsureDir(migrated, PathDirname(pagePath)),
                   pagePath,
                   transformComponentToNextjs(migrated.content, route))
       IN  IF dryRun
           THEN /\ console' = Append(console,
                                     Line("log", "Would create page",
                                          pagePath))
                /\ cursor' = cursor + 1
                /\ UNCHANGED <<tree, ops, pc, outcome, error, calls>>
           ELSE IF componentPath = NULL
           THEN /\ console' = Append(console,
                                     Line("warn",
                                          "Could not find component file",
                                          route.component))
                /\ cursor' = cursor + 1
                /\ UNCHANGED <<tree, ops, pc, outcome, error, calls>>
           ELSE /\ tree' = IF read.error # "none" THEN tree
                           ELSE written.tree
                /\ ops' = ops \o (IF read.error # "none" THEN read.ops
                                  ELSE written.ops)
                /\ cursor' = cursor + 1
                /\ UNCHANGED console
                /\ IF read.error # "none"
                   THEN Settle("transformRoutes", dryRun, treeBefore, tree,
                               read.error)
                   ELSE IF written.error # "none"
                   THEN Settle("transformRoutes", dryRun, treeBefore,
                               written.tree, written.error)
                   ELSE UNCHANGED <<pc, outcome, error, calls>>
    /\ UNCHANGED <<analyzerVars, entry, dryRun, codebaseAnalysis,
                   treeBefore>>

\* createRootLayout called only when the loop had a route to transform
CreateRootLayout_unlessEmpty ==
    /\ pc = "transformRoute"
    /\ entry = "transformRoutes"
    /\ cursor > Len(codebaseAnalysis.routing.routes)
    /\ LET layoutPath == PathJoinAll(<<AppDir, LayoutTsxName>>)
           empty == codebaseAnalysis.routing.routes = <<>>
           r == IF dryRun \/ empty THEN FsStart(tree)
                ELSE ThenWriteFile(FsStart(tree), layoutPath,
                                   RootLayoutContent)
       IN  /\ tree' = r.tree
           /\ ops' = ops \o r.ops
           /\ console' = IF dryRun /\ ~empty
                         THEN Append(console,
                                     Line("log", "Would create root layout",
                                          layoutPath))
                         ELSE console
           /\ Settle("transformRoutes", dryRun, treeBefore, r.tree, r.error)
    /\ UNCHANGED <<analyzerVars, entry, dryRun, codebaseAnalysis,
                   treeBefore, cursor>>

\* transformRoutes, line 24: createRootLayout, then the call returns
CreateRootLayout ==
    /\ pc = "transformRoute"
    /\ entry = "transformRoutes"
    /\ cursor > Len(codebaseAnalysis.routing.routes)
    /\ LET layoutPath == PathJoinAll(<<AppDir, LayoutTsxName>>)
           r == IF dryRun THEN FsStart(tree)
                ELSE ThenWriteFile(FsStart(tree), layoutPath,
                                   RootLayoutContent)
       IN  /\ tree' = r.tree
           /\ ops' = ops \o r.ops
           /\ console' = IF dryRun
                         THEN Append(console,
                                     Line("log", "Would create root layout",
                                          layoutPath))
                         ELSE console
           /\ Settle("transformRoutes", dryRun, treeBefore, r.tree, r.error)
    /\ UNCHANGED <<analyzerVars, entry, dryRun, codebaseAnalysis,
                   treeBefore, cursor>>

---------------------------------------------------------------------------
(* Rewriters: transformViteConfig, transformPackageJson *)

NextConfigName == <<"n","e","x","t",".","c","o","n","f","i","g",".","j","s">>
ReactDom == <<"r","e","a","c","t","-","d","o","m">>
V14 == <<"^","1","4",".","0",".","0">>

\* generateNextConfig
generateNextConfig(config) ==
    [kind |-> "nextConfig",
     aliases |-> config.viteConfig.aliases,
     environment |-> config.viteConfig.environment,
     suggested |-> config.suggestedNextConfig]

\* transformViteConfig
TransformViteConfig ==
    /\ pc = "idle"
    /\ Len(calls) < MaxCalls
    /\ entry' = "transformViteConfig"
    /\ \E dry \in BOOLEAN :
          LET configPath == PathJoinAll(<<ProjectPath, NextConfigName>>)
              nextConfig == generateNextConfig(codebaseAnalysis.configuration)
              r == IF dry THEN FsStart(tree)
                   ELSE ThenWriteFile(FsStart(tree), configPath, nextConfig)
          IN  /\ dryRun' = dry
              /\ tree' = r.tree
              /\ ops' = r.ops
              /\ console' = IF dry
                            THEN <<Line("log", "Would create next.config.js",
                                        configPath)>>
                            ELSE <<>>
              /\ Settle("transformViteConfig", dry, tree, r.tree, r.error)
    /\ treeBefore' = tree
    /\ cursor' = 0
    /\ UNCHANGED <<analyzerVars, codebaseAnalysis>>

\* the content of a JSON file holding obj
JsonFile(obj) == [kind |-> "json", json |-> Some(obj)]

\* fs.readJson(p): rejects when p cannot be read or is not JSON
ThenReadJson(r, p) ==
    LET read == ThenReadFile(r, p)
    IN  IF read.error # "none" THEN read
        ELSE IF r.tree[p].kind # "json" \/ JSONParse(r.tree[p]) = None
        THEN [read EXCEPT !.error = "SyntaxError"]
        ELSE read

\* delete obj?.[key] : obj is None when the manifest has no such map
DeleteKey(obj, key) ==
    LET other(e) == e.name # key
    IN  IF obj = None THEN None ELSE Some(SelectSeq(obj[1], other))

\* the forEach deleting from dependencies only
RemoveViteDependencies_runtimeOnly(packageJsonObj, viteSpecific, k) ==
    LET kept(e) == ~ArrayIncludes(viteSpecific, e.name)
    IN  [packageJsonObj EXCEPT
            !.dependencies = IF @ = None THEN None
                             ELSE Some(SelectSeq(@[1], kept))]

\* the forEach of lines 342-345 from entry k of viteSpecific on
RECURSIVE RemoveViteDependencies(_, _, _)
RemoveViteDependencies(packageJsonObj, viteSpecific, k) ==
    IF k > Len(viteSpecific) THEN packageJsonObj
    ELSE RemoveViteDependencies(
             [packageJsonObj EXCEPT
                 !.dependencies = DeleteKey(@, viteSpecific[k]),
                 !.devDependencies = DeleteKey(@, viteSpecific[k])],
             viteSpecific, k + 1)

nextDependencies ==
    <<Dep(NextName, V14), Dep(React, V18), Dep(ReactDom, V18)>>

Script(name, command) == [name |-> name, command |-> command]

nextScripts ==
    <<Script("dev", "next dev"), Script("build", "next build"),
      Script("start", "next start"), Script("lint", "next lint")>>

\* { ...obj, ...entries } where obj may be undefined
SpreadOver(obj, entries) ==
    Some(SpreadMerge(IF obj = None THEN <<>> ELSE obj[1], entries))

\* the manifest object with the script map replaced as a whole
UpdatedPackageJson_replacingScripts(packageJsonObj, viteSpecific) ==
    LET removed == RemoveViteDependencies(packageJsonObj, viteSpecific, 1)
    IN  [removed EXCEPT
            !.dependencies = SpreadOver(@, nextDependencies),
            !.scripts = Some(nextScripts)]

\* the manifest object transformPackageJson builds, lines 341-366
UpdatedPackageJson(packageJsonObj, viteSpecific) ==
    LET removed == RemoveViteDependencies(packageJsonObj, viteSpecific, 1)
    IN  [removed EXCEPT
            !.dependencies = SpreadOver(@, nextDependencies),
            !.scripts = SpreadOver(@, nextScripts)]

\* transformPackageJson draining analysis.dependencies.viteSpecific with
\* shift() while it deletes the entries
TransformPackageJson_draining ==
    /\ pc = "idle"
    /\ Len(calls) < MaxCalls
    /\ entry' = "transformPackageJson"
    /\ \E dry \in BOOLEAN :
          LET packageJsonPath == PathJoinAll(<<ProjectPath, PackageJsonName>>)
              read == ThenReadJson(FsStart(tree), packageJsonPath)
              updated ==
                  UpdatedPackageJson(
                      JSONParse(tree[packageJsonPath])[1],
                      codebaseAnalysis.dependencies.viteSpecific)
              r == IF read.error # "none" \/ dry THEN read
                   ELSE ThenWriteFile(read, packageJsonPath,
                                      JsonFile(updated))
          IN  /\ dryRun' = dry
              /\ tree' = r.tree
              /\ ops' = r.ops
              /\ console' = IF read.error = "none" /\ dry
                            THEN <<Line("log", "Would update package.json",
                                        updated)>>
                            ELSE <<>>
              /\ codebaseAnalysis' =
                    IF read.error # "none" THEN codebaseAnalysis
                    ELSE [codebaseAnalysis EXCEPT
                             !.dependencies.viteSpecific = <<>>]
              /\ Settle("transformPackageJson", dry, tree, r.tree, r.error)
    /\ treeBefore' = tree
    /\ cursor' = 0
    /\ UNCHANGED analyzerVars

\* transformPackageJson
TransformPackageJson ==
    /\ pc = "idle"
    /\ Len(calls) < MaxCalls
    /\ entry' = "transformPackageJson"
    /\ \E dry \in BOOLEAN :
          LET packageJsonPath == PathJoinAll(<<ProjectPath, PackageJsonName>>)
              read == ThenReadJson(FsStart(tree), packageJsonPath)
              updated ==
                  UpdatedPackageJson(
                      JSONParse(tree[packageJsonPath])[1],
                      codebaseAnalysis.dependencies.viteSpecific)
              r == IF read.error # "none" \/ dry THEN read
                   ELSE ThenWriteFile(read, packageJsonPath,
                                      JsonFile(updated))
          IN  /\ dryRun' = dry
              /\ tree' = r.tree
              /\ ops' = r.ops
              /\ console' = IF read.error = "none" /\ dry
                            THEN <<Line("log", "Would update package.json",
                                        updated)>>
                            ELSE <<>>
              /\ Settle("transformPackageJson", dry, tree, r.tree, r.error)
    /\ treeBefore' = tree
    /\ cursor' = 0
    /\ UNCHANGED <<analyzerVars, codebaseAnalysis>>

---------------------------------------------------------------------------
(* Rewriters: transformStateManagement, transformTestFiles *)

ReduxWrapperName == <<"s","r","c","/","l","i","b","/","r","e","d","u","x","-","w","r","a","p","p","e","r",".","t","s">>
StoreName == <<"s","r","c","/","s","t","o","r","e",".","t","s">>

ReduxWrapperContent == [kind |-> "reduxWrapper"]

\* a store file: whether it holds the text "import { configureStore }",
\* whether its import already lists ThunkAction and Action, whether it
\* holds the text "export const store = ", and how often "configureStore"
\* has been put after that text
StoreFile(imports, widened, exports, inserted) ==
    [kind |-> "store", imports |-> imports, widened |-> widened,
     exports |-> exports, inserted |-> inserted]

\* the two replace calls of transformRedux, lines 255-263
UpdatedStoreContent(content) ==
    IF content.kind # "store" THEN content
    ELSE StoreFile(FALSE, content.widened \/ content.imports,
                   content.exports,
                   IF content.exports THEN content.inserted + 1
                   ELSE content.inserted)

\* the loop of transformRedux over storeLocations from entry k on
RECURSIVE UpdateStores(_, _, _)
UpdateStores(r, storeLocations, k) ==
    IF k > Len(storeLocations) \/ r.error # "none" THEN r
    ELSE LET storePath == PathJoinAll(<<ProjectPath, storeLocations[k]>>)
             read == ThenReadFile(r, storePath)
         IN  UpdateStores(
                 IF read.error # "none" THEN read
                 ELSE ThenWriteFile(read, storePath,
                                    UpdatedStoreContent(r.tree[storePath])),
                 storeLocations, k + 1)

\* transformRedux in real mode
transformRedux(t, storeLocations) ==
    LET wrapperPath == PathJoinAll(<<ProjectPath, ReduxWrapperName>>)
    IN  UpdateStores(
            ThenWriteFile(ThenEnsureDir(FsStart(t), PathDirname(wrapperPath)),
                          wrapperPath, ReduxWrapperContent),
            storeLocations, 1)

\* transformStateManagement
TransformStateManagement ==
    /\ pc = "idle"
    /\ Len(calls) < MaxCalls
    /\ entry' = "transformStateManagement"
    /\ \E dry \in BOOLEAN :
          LET type == codebaseAnalysis.stateManagement.type
              r == IF type = "redux" /\ ~dry
                   THEN transformRedux(
                            tree,
                            codebaseAnalysis.stateManagement.storeLocations)
                   ELSE FsStart(tree)
          IN  /\ dryRun' = dry
              /\ tree' = r.tree
              /\ ops' = r.ops
              /\ console' =
                    IF type = "redux"
                    THEN IF dry
                         THEN <<Line("log", "Would create Redux wrapper",
                                     ReduxWrapperContent)>>
                         ELSE <<>>
                    ELSE IF type \in {"zustand", "context"} THEN <<>>
                    ELSE <<Line("log",
                                "No state management transformation needed",
                                type)>>
              /\ Settle("transformStateManagement", dry, tree, r.tree,
                        r.error)
    /\ treeBefore' = tree
    /\ cursor' = 0
    /\ UNCHANGED <<analyzerVars, codebaseAnalysis>>

AppTestName == <<"a","p","p",".","t","e","s","t",".","t","s","x">>
UtilTestName == <<"s","r","c","/","u","t","i","l",".","t","e","s","t",".","j","s">>
AppSpecName == <<"a","p","p",".","s","p","e","c",".","t","s">>

\* the project-relative names of the modelled test trees, in the order the
\* directory walk of glob meets them
TestGlobOrder == <<AppSpecName, AppTestName, UtilTestName>>

\* '**/*.test.{js,jsx,ts,tsx}'
MatchesTestPattern(name) ==
    \E ext \in {ExtJs, ExtJsx, ExtTs, ExtTsx} :
        EndsWith(name, <<".","t","e","s","t">> \o ext)

\* the glob of transformTestFiles
TestFiles(t) ==
    LET matched(name) ==
            TreeHas(t, PathJoinAll(<<ProjectPath, name>>))
            /\ MatchesTestPattern(name)
    IN  SelectSeq(TestGlobOrder, matched)

\* source text is a sequence of items: an import with the quote character
\* of its source, a blank line, a statement, or text that is not a program
ImportItem(source, quote) ==
    [item |-> "import", source |-> source, quote |-> quote]
BlankItem == [item |-> "blank", source |-> <<>>, quote |-> "none"]
StatementItem == [item |-> "statement", source |-> <<>>, quote |-> "none"]
GarbageItem == [item |-> "garbage", source |-> <<>>, quote |-> "none"]

SourceFile(items) == [kind |-> "source", items |-> items]

\* @babel/parser parse: the nodes of the program without its layout, or
\* None for a SyntaxError
parse(content) ==
    LET isNode(it) == it.item # "blank"
        node(it) ==
            IF it.item = "import"
            THEN [type |-> "ImportDeclaration", source |-> it.source]
            ELSE [type |-> "ExpressionStatement", source |-> <<>>]
        nodes == SelectSeq(content.items, isNode)
    IN  IF content.kind # "source"
           \/ \E i \in 1..Len(content.items) :
                 content.items[i].item = "garbage"
        THEN None
        ELSE Some([i \in 1..Len(nodes) |-> node(nodes[i])])

\* the ImportDeclaration visitor of lines 25-31: it reads the source of
\* the import and changes nothing
ImportDeclaration_prefixing(node) ==
    IF node.type = "ImportDeclaration"
    THEN [node EXCEPT !.source = <<"@", "/">> \o @] ELSE node

ImportDeclaration(node) == node

\* traverse(ast, visitors), lines 25-38
traverse(ast) == [i \in 1..Len(ast) |-> ImportDeclaration(ast[i])]

\* @babel/generator generate: one statement per line, import sources in
\* double quotes
generate(ast) ==
    SourceFile([i \in 1..Len(ast) |->
                   IF ast[i].type = "ImportDeclaration"
                   THEN ImportItem(ast[i].source, "double")
                   ELSE StatementItem])

\* the write of line 43-45
WriteTestFile_always(r, testFilePath, code, dry) ==
    ThenWriteFile(r, testFilePath, code)

WriteTestFile(r, testFilePath, code, dry) ==
    IF dry THEN r ELSE ThenWriteFile(r, testFilePath, code)

\* transformTestFiles, line 12: the glob
TransformTestFiles ==
    /\ pc = "idle"
    /\ Len(calls) < MaxCalls
    /\ entry' = "transformTestFiles"
    /\ console' = <<>>
    /\ \E dry \in BOOLEAN :
          /\ dryRun' = dry
          /\ IF TestFiles(tree) = <<>>
             THEN Settle("transformTestFiles", dry, tree, tree, "none")
             ELSE /\ pc' = "transformTestFile"
                  /\ outcome' = "pending"
                  /\ error' = "none"
                  /\ UNCHANGED calls
    /\ treeBefore' = tree
    /\ cursor' = 1
    /\ ops' = <<>>
    /\ UNCHANGED <<analyzerVars, codebaseAnalysis, tree>>

\* one turn of the loop of transformTestFiles, lines 14-46; the call
\* returns after the last file
TransformTestFile ==
    /\ pc = "transformTestFile"
    /\ entry = "transformTestFiles"
    /\ UNCHANGED console
    /\ LET testFiles == TestFiles(treeBefore)
           testFilePath == PathJoinAll(<<ProjectPath, testFiles[cursor]>>)
           read == ThenReadFile(FsStart(tree), testFilePath)
           ast == parse(tree[testFilePath])
           code == generate(traverse(ast[1]))
           r == IF read.error # "none" THEN read
                ELSE IF ast = None
                THEN [read EXCEPT !.error = "SyntaxError"]
                ELSE WriteTestFile(read, testFilePath, code, dryRun)
       IN  /\ tree' = r.tree
           /\ ops' = ops \o r.ops
           /\ cursor' = cursor + 1
           /\ IF r.error # "none" \/ cursor = Len(testFiles)
              THEN Settle("transformTestFiles", dryRun, treeBefore, r.tree,
                          r.error)
              ELSE UNCHANGED <<pc, outcome, error, calls>>
    /\ UNCHANGED <<analyzerVars, entry, dryRun, codebaseAnalysis,
                   treeBefore>>

---------------------------------------------------------------------------
(* Rewriter inputs *)

RouteInfo(routePath, component) ==
    [path |-> routePath, component |-> component]

\* the fields of a CodebaseAnalysis that the rewriters read
CodebaseAnalysis(routes, stateType, storeLocations, viteSpecific) ==
    [routing |-> [routes |-> routes],
     stateManagement |-> [type |-> stateType,
                          storeLocations |-> storeLocations],
     dependencies |-> [viteSpecific |-> viteSpecific],
     configuration |-> [viteConfig |-> [aliases |-> <<>>,
                                        environment |-> <<>>],
                        suggestedNextConfig |-> <<>>]]

\* no rewriter has been called
NoRewriter ==
    /\ dryRun = FALSE
    /\ codebaseAnalysis = CodebaseAnalysis(<<>>, "unknown", <<>>, <<>>)
    /\ tree = <<>>
    /\ treeBefore = <<>>
    /\ cursor = 0
    /\ console = <<>>
    /\ calls = <<>>

\* a component file and the data fetching patterns its text matches
ComponentFile(name, matches) ==
    [kind |-> "component", name |-> name, matches |-> matches]

\* the tree holding the given files, with the directories they lie in
TreeOf(fileMap) ==
    LET dirs == {ProjectPath}
                \cup UNION {Range(PathPrefixes(PathDirname(p))) :
                               p \in DOMAIN fileMap}
    IN  fileMap @@ [q \in dirs |-> DirEntry]

---------------------------------------------------------------------------
(* CLI: the analyze command *)

ReportName == <<"m","i","g","r","a","t","i","o","n","-","r","e","p","o","r","t",".","m","d">>

\* the state of a finished or running analyzer call, which the handlers of
\* the commands read
analyzerCall ==
    <<pc, entry, options, packageJson, requirementsTxt, pyprojectToml,
      dependencies, basicAnalysis, toRead, codebase, codebasePackageJson,
      routingAnalysis, dependencyAnalysis, aiAnalysis, outcome, error,
      analysis, plan>>

\* the handler of analyze as far as the call of analyzeProject,
\* cli.ts 29-45: ai is options.ai, false when --no-ai was given
AnalyzeCommand ==
    /\ cmdPc = "idle"
    /\ \E ai \in BOOLEAN, config \in {None, Some(<<CustomConfigName>>)} :
          /\ cmd' = [name |-> "analyze", ai |-> ai, config |-> config]
          /\ stdout' = (IF ~ai /\ ~apiKey
                        THEN <<"Warning: No Anthropic API key found">>
                        ELSE <<>>)
                       \o <<"Analyzing project structure...">>
          /\ AnalyzeProjectBegin([config |-> config, skipAI |-> ~ai])
    /\ cmdPc' = "analyzing"
    /\ UNCHANGED <<apiKey, exitCode, cwdFiles, stepsDone>>

\* the handler writing the report file outside the aiSuggestions block
AnalyzeCommandReport_always ==
    /\ cmd.name = "analyze"
    /\ cmdPc = "analyzing"
    /\ pc = "returned"
    /\ LET detailed == analysis[1].aiSuggestions # None
       IN  /\ stdout' = stdout
                        \o <<"Analysis complete!", "Project Details:">>
                        \o (IF detailed
                            THEN <<"Detailed Migration Analysis:">>
                            ELSE <<>>)
                        \o <<"Detailed migration report saved">>
           /\ ops' = Append(ops, Op("writeFileSync", ReportName))
           /\ cwdFiles' = cwdFiles \cup {ReportName}
    /\ cmdPc' = "exited"
    /\ exitCode' = 0
    /\ UNCHANGED <<disk, analyzerCall, rewriterVars, scans, cmd, apiKey,
                   stepsDone>>

\* cli.ts 47-92: the summary and, when the analysis has aiSuggestions, the
\* detailed analysis and the report file
AnalyzeCommandReport ==
    /\ cmd.name = "analyze"
    /\ cmdPc = "analyzing"
    /\ pc = "returned"
    /\ LET detailed == analysis[1].aiSuggestions # None
       IN  /\ stdout' = stdout
                        \o <<"Analysis complete!", "Project Details:">>
                        \o (IF detailed
                            THEN <<"Detailed Migration Analysis:",
                                   "Detailed migration report saved">>
                            ELSE <<>>)
           /\ ops' = IF detailed
                     THEN Append(ops, Op("writeFileSync", ReportName))
                     ELSE ops
           /\ cwdFiles' = IF detailed THEN cwdFiles \cup {ReportName}
                          ELSE cwdFiles
    /\ cmdPc' = "exited"
    /\ exitCode' = 0
    /\ UNCHANGED <<disk, analyzerCall, rewriterVars, scans, cmd, apiKey,
                   stepsDone>>

\* cli.ts 93-96: the catch block of the handler
AnalyzeCommandCatch ==
    /\ cmd.name = "analyze"
    /\ cmdPc = "analyzing"
    /\ outcome = "rejected"
    /\ stdout' = Append(stdout, "Error analyzing project:")
    /\ exitCode' = 1
    /\ cmdPc' = "exited"
    /\ UNCHANGED <<disk, analyzerCall, ops, rewriterVars, scans, cmd,
                   apiKey, cwdFiles, stepsDone>>

---------------------------------------------------------------------------
(* CLI: the migrate command *)

MigrationBackupName == <<".","m","i","g","r","a","t","i","o","n","-","b","a","c","k","u","p">>
NodeModulesName == <<"n","o","d","e","_","m","o","d","u","l","e","s">>

\* path.join(projectPath, '.migration-backup')
BackupDir == PathJoin(ProjectPath, MigrationBackupName)

\* fs-extra, checkPaths: dest lies inside the directory src
IsSrcSubdir(src, dest) ==
    LET srcArr == PathSegments(src)
        destArr == PathSegments(dest)
    IN  /\ Len(srcArr) <= Len(destArr)
        /\ \A i \in 1..Len(srcArr) : destArr[i] = srcArr[i]

\* the paths fs.copy(src, dest, {filter}) creates from the files under src
CopiedFiles(src, dest) ==
    {dest \o SubSeq(f, Len(src) + 1, Len(f)) :
        f \in {g \in files : /\ StartsWith(g, src \o Slash)
                             /\ ~Includes(g, NodeModulesName)}}

\* fs.copy(src, dest, { filter: src => !src.includes('node_modules') }) of
\* a directory: rejects when src does not exist and when dest is src or
\* lies inside it; copies nothing when the filter turns src itself down
copy(src, dest) ==
    IF ~pathExists(src) THEN [error |-> "ENOENT", files |-> files]
    ELSE IF IsSrcSubdir(src, dest)
    THEN [error |-> "Cannot copy to a subdirectory of itself",
          files |-> files]
    ELSE IF Includes(src, NodeModulesName)
    THEN [error |-> "none", files |-> files]
    ELSE [error |-> "none", files |-> files \cup CopiedFiles(src, dest)]

\* the handler of createMigrateCommand as far as the call of
\* analyzeProject, migrate.ts 21-36
MigrateCommand ==
    /\ cmdPc = "idle"
    /\ \E yes \in BOOLEAN, dry \in BOOLEAN :
          cmd' = [name |-> "migrate", handler |-> "createMigrateCommand",
                  yes |-> yes, dryRun |-> dry, asked |-> FALSE,
                  confirm |-> FALSE]
    /\ stdout' = <<"Analyzing project...">>
    /\ AnalyzeProjectBegin([config |-> None, skipAI |-> FALSE])
    /\ cmdPc' = "analyzing"
    /\ UNCHANGED <<apiKey, exitCode, cwdFiles, stepsDone>>

\* migrate.ts 42-56 with the backup and the migration following whatever
\* the operator answers
MigrateConfirm_unheeded ==
    /\ cmd.name = "migrate"
    /\ cmdPc = "analyzing"
    /\ pc = "done"
    /\ plan # None
    /\ IF cmd.yes
       THEN UNCHANGED cmd
       ELSE \E answer \in BOOLEAN :
               cmd' = [cmd EXCEPT !.asked = TRUE, !.confirm = answer]
    /\ cmdPc' = "backup"
    /\ UNCHANGED <<stdout, exitCode>>
    /\ UNCHANGED <<disk, analyzerCall, ops, rewriterVars, scans, apiKey,
                   cwdFiles, stepsDone>>

\* migrate.ts 42-56: the confirmation prompt, unless --yes
MigrateConfirm ==
    /\ cmd.name = "migrate"
    /\ cmdPc = "analyzing"
    /\ pc = "done"
    /\ plan # None
    /\ IF cmd.yes
       THEN /\ cmdPc' = "backup"
            /\ UNCHANGED <<cmd, stdout, exitCode>>
       ELSE \E answer \in BOOLEAN :
               /\ cmd' = [cmd EXCEPT !.asked = TRUE, !.confirm = answer]
               /\ IF answer
                  THEN /\ cmdPc' = "backup"
                       /\ UNCHANGED <<stdout, exitCode>>
                  ELSE /\ stdout' = Append(stdout, "Migration cancelled")
                       /\ cmdPc' = "exited"
                       /\ exitCode' = 0
    /\ UNCHANGED <<disk, analyzerCall, ops, rewriterVars, scans, apiKey,
                   cwdFiles, stepsDone>>

\* migrate.ts 58-64: the backup copy, unless --dry-run; a rejected copy
\* goes to the catch block (76-79)
MigrateBackup ==
    /\ cmd.name = "migrate"
    /\ cmdPc = "backup"
    /\ IF cmd.dryRun
       THEN /\ cmdPc' = "perform"
            /\ UNCHANGED <<files, ops, stdout, exitCode>>
       ELSE LET r == copy(ProjectPath, BackupDir)
            IN  /\ ops' = Append(ops, Op("copy", BackupDir))
                /\ files' = r.files
                /\ IF r.error = "none"
                   THEN /\ cmdPc' = "perform"
                        /\ UNCHANGED <<stdout, exitCode>>
                   ELSE /\ stdout' = Append(stdout,
                                            "Error during migration:")
                        /\ cmdPc' = "exited"
                        /\ exitCode' = 1
    /\ UNCHANGED <<rootExists, unreadable, manifest, analyzerCall,
                   rewriterVars, scans, cmd, apiKey, cwdFiles, stepsDone>>

\* performMigration, migrate.ts 90-101: one step of the plan, its title
\* and the descriptions of its tasks; no code change is applied
MigrateStep ==
    /\ cmd.name = "migrate"
    /\ cmdPc = "perform"
    /\ stepsDone < Len(plan[1].steps)
    /\ LET step == plan[1].steps[stepsDone + 1]
       IN  stdout' = stdout \o <<step.title>>
                     \o [i \in 1..Len(step.tasks) |->
                            step.tasks[i].description]
    /\ stepsDone' = stepsDone + 1
    /\ UNCHANGED <<disk, analyzerCall, ops, rewriterVars, scans, cmd,
                   cmdPc, apiKey, exitCode, cwdFiles>>

\* migrate.ts 69-74: performMigration has returned
MigrateCompleted ==
    /\ cmd.name = "migrate"
    /\ cmdPc = "perform"
    /\ stepsDone = Len(plan[1].steps)
    /\ stdout' = stdout \o <<"Migration completed!", "Backup created at:">>
    /\ cmdPc' = "exited"
    /\ exitCode' = 0
    /\ UNCHANGED <<disk, analyzerCall, ops, rewriterVars, scans, cmd,
                   apiKey, cwdFiles, stepsDone>>

\* migrate.ts 76-79: the catch block, reached from analyzeProject
MigrateCatch ==
    /\ cmd.name = "migrate"
    /\ cmdPc = "analyzing"
    /\ outcome = "rejected"
    /\ stdout' = Append(stdout, "Error during migration:")
    /\ exitCode' = 1
    /\ cmdPc' = "exited"
    /\ UNCHANGED <<disk, analyzerCall, ops, rewriterVars, scans, cmd,
                   apiKey, cwdFiles, stepsDone>>

\* the migrate command cli.ts registers, lines 99-104: it declares neither
\* --yes nor --dry-run, which commander turns down as unknown options
MigrateComingSoon ==
    /\ cmdPc = "idle"
    /\ pc = "idle"
    /\ \E yes \in BOOLEAN, dry \in BOOLEAN :
          /\ cmd' = [name |-> "migrate", handler |-> "cli",
                     yes |-> yes, dryRun |-> dry, asked |-> FALSE,
                     confirm |-> FALSE]
          /\ stdout' = IF yes \/ dry THEN <<"error: unknown option">>
                       ELSE <<"Migration feature coming soon!">>
          /\ exitCode' = IF yes \/ dry THEN 1 ELSE 0
    /\ cmdPc' = "exited"
    /\ UNCHANGED <<disk, analyzerCall, ops, rewriterVars, scans, apiKey,
                   cwdFiles, stepsDone>>

---------------------------------------------------------------------------
(* Projects on disk *)

Manifest(state, deps, devDeps) ==
    [state |-> state, dependencies |-> deps, devDependencies |-> devDeps]

AbsentManifest == Manifest("absent", <<>>, <<>>)
MalformedManifest == Manifest("malformed", <<>>, <<>>)
ViteOnlyManifest == Manifest("valid", <<Dep(Vite, V4)>>, <<>>)

ManifestChoices ==
    {AbsentManifest, MalformedManifest,
     Manifest("valid", <<>>, <<>>),
     ViteOnlyManifest,
     Manifest("valid", <<Dep(Vite, V4), Dep(VitePluginReact, V3)>>, <<>>),
     Manifest("valid", <<Dep(React, V18)>>, <<>>),
     Manifest("valid", <<Dep(React, V18), Dep(ReactRouterDom, V6)>>,
              <<Dep(Vitest, V4), Dep(React, V18)>>)}

ProbeNames ==
    {TsconfigName, PyprojectTomlName, RequirementsTxtName, JestConfigName,
     PytestIniName, EslintrcName, PrettierrcName, GithubWorkflowsName,
     GitlabCiName, DockerfileName, ViteConfigTsName, ViteConfigJsName,
     EnvName, EnvStarName, CustomConfigName}

SourceNames == {SrcA, SrcB, SrcDist, SrcReactRouter}

Paths(names) == {InProject(n) : n \in names}

ManifestFile(m) == IF m.state = "absent" THEN {} ELSE {PackageJsonPath}

\* no command has been run; the environment holds an API key
NoCommand ==
    /\ cmd = [name |-> "none"]
    /\ cmdPc = "idle"
    /\ apiKey = TRUE
    /\ stdout = <<>>
    /\ exitCode = 0
    /\ cwdFiles = {}
    /\ stepsDone = 0

\* no analyzer call has been made
IdleAnalyzer ==
    /\ pc = "idle"
    /\ entry = "none"
    /\ options = [config |-> None, skipAI |-> FALSE]
    /\ packageJson = None
    /\ requirementsTxt = NULL
    /\ pyprojectToml = NULL
    /\ dependencies = <<>>
    /\ basicAnalysis = None
    /\ toRead = <<>>
    /\ codebase = <<>>
    /\ codebasePackageJson = None
    /\ routingAnalysis = None
    /\ dependencyAnalysis = None
    /\ aiAnalysis = None
    /\ ops = <<>>
    /\ outcome = "pending"
    /\ error = "none"
    /\ analysis = None
    /\ plan = None
    /\ scans = <<>>

\* nothing has been called
Idle ==
    /\ IdleAnalyzer
    /\ NoCommand

NoProject ==
    /\ rootExists = FALSE
    /\ files = {}
    /\ unreadable = {}
    /\ manifest = AbsentManifest

\* project trees: up to MaxFiles config files, any of the manifests, and
\* either no source file or an unreadable one followed by a readable one
Init ==
    /\ Idle
    /\ NoRewriter
    /\ \/ NoProject
       \/ /\ rootExists = TRUE
          /\ manifest \in ManifestChoices
          /\ \E probes \in SubsetsUpTo(Paths(ProbeNames), MaxFiles),
                withSources \in BOOLEAN :
                /\ files = probes \cup ManifestFile(manifest)
                           \cup (IF withSources
                                 THEN Paths({SrcA, SrcReactRouter}) ELSE {})
                /\ unreadable = IF withSources THEN Paths({SrcA}) ELSE {}

Next ==
    \/ AnalyzeProject
    \/ ReadPackageJson
    \/ ReadSecondaryManifests
    \/ AnalyzeDependencies
    \/ ScanConfigs
    \/ AnalyzeCodebaseNested
    \/ AnalyzeCodebase
    \/ ReadCodebaseFile
    \/ AnalyzeRouting
    \/ AIAnalyzeDependencies
    \/ AnalyzeConfiguration
    \/ CombineResults
    \/ GenerateMigrationPlan

Spec == Init /\ [][Next]_vars

\* projects that differ in their source files: up to MaxSrcFiles of them,
\* each readable or not
InitSources ==
    /\ Idle
    /\ NoRewriter
    /\ \/ NoProject
       \/ /\ rootExists = TRUE
          /\ manifest \in {ViteOnlyManifest, MalformedManifest}
          /\ \E present \in SubsetsUpTo(Paths(SourceNames), MaxSrcFiles) :
                /\ files = present \cup ManifestFile(manifest)
                /\ unreadable \in SUBSET present

SpecSources == InitSources /\ [][Next]_vars

\* the parsed manifests handed to the classifier
ManifestInputs ==
    LET maps == {[i \in 1..Len(ns) |-> Dep(ns[i], V4)] :
                    ns \in DistinctSeqsUpTo(DepNames, MaxDeps)}
    IN  {[dependencies |-> d, devDependencies |-> dd] :
            d \in maps, dd \in maps}

InitClassify ==
    /\ rootExists = FALSE /\ files = {} /\ unreadable = {}
    /\ manifest = AbsentManifest
    /\ pc = "classify"
    /\ entry = "none"
    /\ options = [config |-> None, skipAI |-> FALSE]
    /\ packageJson = None
    /\ requirementsTxt = NULL
    /\ pyprojectToml = NULL
    /\ dependencies = <<>>
    /\ basicAnalysis = None
    /\ toRead = <<>>
    /\ codebase = <<>>
    /\ codebasePackageJson \in {Some(m) : m \in ManifestInputs}
    /\ routingAnalysis = None
    /\ dependencyAnalysis = None
    /\ aiAnalysis = None
    /\ ops = <<>>
    /\ outcome = "pending"
    /\ error = "none"
    /\ analysis = None
    /\ plan = None
    /\ scans = <<>>
    /\ NoRewriter
    /\ NoCommand

SpecClassify == InitClassify /\ [][ClassifyDependencies]_vars

\* the values a config field of a ProjectAnalysis takes
ConfigValues(names) == {NULL} \cup Paths(names)

AnalysisInputs ==
    [framework : {"vite"},
     dependencies : {<<>>},
     tsConfig : ConfigValues({TsconfigName}),
     pythonConfig : ConfigValues({PyprojectTomlName}),
     testConfig : ConfigValues({JestConfigName, PytestIniName}),
     lintConfig : ConfigValues({EslintrcName}),
     prettierConfig : ConfigValues({PrettierrcName}),
     ciConfig : ConfigValues({GithubWorkflowsName, GitlabCiName}),
     containerizationConfig : ConfigValues({DockerfileName}),
     configFiles : {<<>>},
     aiSuggestions : {None},
     routingStructure : {<<>>}]

InitPlan ==
    /\ rootExists = FALSE /\ files = {} /\ unreadable = {}
    /\ manifest = AbsentManifest
    /\ pc = "returned"
    /\ entry = "analyzeProject"
    /\ options = [config |-> None, skipAI |-> TRUE]
    /\ packageJson = None
    /\ requirementsTxt = NULL
    /\ pyprojectToml = NULL
    /\ dependencies = <<>>
    /\ basicAnalysis = None
    /\ toRead = <<>>
    /\ codebase = <<>>
    /\ codebasePackageJson = None
    /\ routingAnalysis = None
    /\ dependencyAnalysis = None
    /\ aiAnalysis = None
    /\ ops = <<>>
    /\ outcome = "returned"
    /\ error = "none"
    /\ analysis \in {Some(a) : a \in AnalysisInputs}
    /\ plan = None
    /\ scans = <<>>
    /\ NoRewriter
    /\ NoCommand

SpecPlan == InitPlan /\ [][GenerateMigrationPlan]_vars

---------------------------------------------------------------------------
(* Repeated scans of one file tree *)

MaxRescans == 1     \* analyzeProject calls started over on the same tree

\* the caller keeps what performBasicAnalysis returned and analyzes the
\* same tree again with a new ProjectAnalyzer
Rescan ==
    /\ pc = "done"
    /\ entry = "analyzeProject"
    /\ outcome = "returned"
    /\ Len(scans) < MaxRescans
    /\ scans' = Append(scans, [config |-> options.config,
                               result |-> basicAnalysis[1]])
    /\ pc' = "idle"
    /\ entry' = "none"
    /\ options' = [config |-> None, skipAI |-> FALSE]
    /\ packageJson' = None
    /\ requirementsTxt' = NULL
    /\ pyprojectToml' = NULL
    /\ dependencies' = <<>>
    /\ basicAnalysis' = None
    /\ toRead' = <<>>
    /\ codebase' = <<>>
    /\ codebasePackageJson' = None
    /\ routingAnalysis' = None
    /\ dependencyAnalysis' = None
    /\ aiAnalysis' = None
    /\ ops' = <<>>
    /\ outcome' = "pending"
    /\ error' = "none"
    /\ analysis' = None
    /\ plan' = None
    /\ UNCHANGED <<disk, rewriterVars, commandVars>>

\* trees with a vite manifest, up to MaxFiles config files and two source
\* files
InitScan ==
    /\ Idle
    /\ NoRewriter
    /\ rootExists = TRUE
    /\ manifest = ViteOnlyManifest
    /\ \E probes \in SubsetsUpTo(Paths(ProbeNames), MaxFiles) :
          files = probes \cup ManifestFile(manifest)
                  \cup Paths({SrcA, SrcReactRouter})
    /\ unreadable = Paths({SrcA})

NextScan ==
    \/ AnalyzeProject
    \/ ReadPackageJson
    \/ ReadSecondaryManifests
    \/ AnalyzeDependencies
    \/ ScanConfigs
    \/ AnalyzeCodebaseNested
    \/ ReadCodebaseFile
    \/ AnalyzeRouting
    \/ AIAnalyzeDependencies
    \/ AnalyzeConfiguration
    \/ CombineResults
    \/ GenerateMigrationPlan
    \/ Rescan

SpecScan == InitScan /\ [][NextScan]_vars

---------------------------------------------------------------------------
(* Rewriter runs *)

MaxPathLen == 3     \* characters of a generated route path
MaxRoutes == 2      \* routes of an analysis
MaxItems == 2       \* items of a generated test file

UserProfileName == <<"U","s","e","r","P","r","o","f","i","l","e">>
HomeName == <<"H","o","m","e">>
SettingsName == <<"S","e","t","t","i","n","g","s">>
UsersIdPath == <<"/","u","s","e","r","s","/",":","i","d">>
UsersPath == <<"/","u","s","e","r","s">>
UsersSlashPath == <<"/","u","s","e","r","s","/">>
RootPath == <<"/">>
AboutPath == <<"/","a","b","o","u","t">>

\* UserProfile lies in src/components, Home in src/pages and in src and
\* has a useEffect; no file holds Settings
ComponentTree ==
    TreeOf((PathJoinAll(<<ProjectPath, <<"s","r","c","/","c","o","m","p","o","n","e","n","t","s","/","U","s","e","r","P","r","o","f","i","l","e",".","t","s","x">>>>)
               :> ComponentFile(UserProfileName, {}))
           @@ (PathJoinAll(<<ProjectPath, <<"s","r","c","/","p","a","g","e","s","/","H","o","m","e",".","j","s","x">>>>)
               :> ComponentFile(HomeName, {"useEffect"}))
           @@ (PathJoinAll(<<ProjectPath, <<"s","r","c","/","H","o","m","e",".","j","s">>>>)
               :> ComponentFile(HomeName, {})))

\* no analyzer runs and there is no project of the analyzers
NoAnalyzer ==
    /\ Idle
    /\ NoProject

PathAlphabet == {"/", ":", "a", "[", "]"}

PathInputs == SeqsUpTo(PathAlphabet, MaxPathLen) \cup {UsersIdPath}

\* one route, of any path over the alphabet
InitPaths ==
    /\ NoAnalyzer
    /\ dryRun = FALSE
    /\ \E p \in PathInputs :
          codebaseAnalysis =
              CodebaseAnalysis(<<RouteInfo(p, UserProfileName)>>,
                               "unknown", <<>>, <<>>)
    /\ tree = ComponentTree
    /\ treeBefore = tree
    /\ cursor = 0
    /\ console = <<>>
    /\ calls = <<>>

NextRoutes ==
    \/ TransformRoutes
    \/ TransformRoute
    \/ CreateRootLayout

SpecPaths == InitPaths /\ [][NextRoutes]_vars

RouteChoices ==
    {RouteInfo(UsersPath, UserProfileName),
     RouteInfo(UsersSlashPath, HomeName),
     RouteInfo(UsersIdPath, UserProfileName),
     RouteInfo(UsersIdPath, SettingsName),
     RouteInfo(RootPath, HomeName),
     RouteInfo(AboutPath, SettingsName)}

\* up to MaxRoutes routes over the component tree
InitRoutes ==
    /\ NoAnalyzer
    /\ dryRun = FALSE
    /\ \E routes \in SeqsUpTo(RouteChoices, MaxRoutes) :
          codebaseAnalysis = CodebaseAnalysis(routes, "unknown", <<>>, <<>>)
    /\ tree = ComponentTree
    /\ treeBefore = tree
    /\ cursor = 0
    /\ console = <<>>
    /\ calls = <<>>

SpecRoutes == InitRoutes /\ [][NextRoutes]_vars

V17 == <<"^","1","7",".","0",".","0">>

VersionOf(name) == IF name = React THEN V17 ELSE V4

\* maps of up to MaxDeps entries over the names
DependencyMaps(names) ==
    {[i \in 1..Len(ns) |-> Dep(ns[i], VersionOf(ns[i]))] :
        ns \in DistinctSeqsUpTo(names, MaxDeps)}

\* the package.json objects of the manifest rewriter runs
PackageJsonInputs ==
    [dependencies :
        {None} \cup {Some(d) : d \in DependencyMaps({Vite, Rollup, React})},
     devDependencies :
        {None, Some(<<>>), Some(<<Dep(Vitest, V4)>>),
         Some(<<Dep(Vite, V4), Dep(VitePluginReact, V3)>>)},
     scripts :
        {None, Some(<<Script("dev", "vite")>>),
         Some(<<Script("test", "vitest"), Script("build", "vite build")>>)}]

\* lists the classifier can return: names that contain vite or rollup
ViteSpecificInputs == DistinctSeqsUpTo({Vite, Vitest, Rollup}, MaxDeps)

RewriterPackageJsonPath == PathJoinAll(<<ProjectPath, PackageJsonName>>)

\* a project with one of the manifests, with a package.json that is not
\* JSON, or without package.json
InitManifest ==
    /\ NoAnalyzer
    /\ dryRun = FALSE
    /\ \E viteSpecific \in ViteSpecificInputs :
          codebaseAnalysis =
              CodebaseAnalysis(<<>>, "unknown", <<>>, viteSpecific)
    /\ \/ \E obj \in PackageJsonInputs :
             tree = TreeOf(RewriterPackageJsonPath :> JsonFile(obj))
       \/ tree = TreeOf(RewriterPackageJsonPath
                        :> [kind |-> "json", json |-> None])
       \/ tree = TreeOf(<<>>)
    /\ treeBefore = tree
    /\ cursor = 0
    /\ console = <<>>
    /\ calls = <<>>

SpecManifest == InitManifest /\ [][TransformPackageJson]_vars

ItemChoices ==
    {ImportItem(<<"a">>, "single"), ImportItem(<<"a">>, "double"),
     BlankItem, StatementItem, GarbageItem}

AppTestPath == PathJoinAll(<<ProjectPath, AppTestName>>)
UtilTestPath == PathJoinAll(<<ProjectPath, UtilTestName>>)
AppSpecPath == PathJoinAll(<<ProjectPath, AppSpecName>>)

\* app.test.tsx with any text of up to MaxItems items, app.spec.ts, and
\* src/util.test.js absent, well-formed or not a program
InitTests ==
    /\ NoAnalyzer
    /\ dryRun = FALSE
    /\ codebaseAnalysis = CodebaseAnalysis(<<>>, "unknown", <<>>, <<>>)
    /\ \E items \in SeqsUpTo(ItemChoices, MaxItems),
          util \in {<<>>,
                    <<ImportItem(<<"b">>, "single"), BlankItem>>,
                    <<GarbageItem>>} :
          tree = TreeOf((AppTestPath :> SourceFile(items))
                        @@ (AppSpecPath
                            :> SourceFile(<<ImportItem(<<"a">>, "single")>>))
                        @@ (IF util = <<>> THEN <<>>
                            ELSE UtilTestPath :> SourceFile(util)))
    /\ treeBefore = tree
    /\ cursor = 0
    /\ console = <<>>
    /\ calls = <<>>

NextTests ==
    \/ TransformTestFiles
    \/ TransformTestFile

SpecTests == InitTests /\ [][NextTests]_vars

StorePath == PathJoinAll(<<ProjectPath, StoreName>>)

\* a project with components, a vite manifest, a redux store and a test
\* file
RewriterTree ==
    TreeOf(ComponentTree
           @@ (RewriterPackageJsonPath
               :> JsonFile([dependencies |-> Some(<<Dep(Vite, V4)>>),
                            devDependencies |-> None,
                            scripts |-> Some(<<Script("dev", "vite")>>)]))
           @@ (StorePath :> StoreFile(TRUE, FALSE, TRUE, 0))
           @@ (AppTestPath
               :> SourceFile(<<ImportItem(<<"a">>, "single"), BlankItem,
                               StatementItem>>)))

InitRewriters ==
    /\ NoAnalyzer
    /\ dryRun = FALSE
    /\ \E routes \in {<<>>, <<RouteInfo(UsersIdPath, UserProfileName)>>,
                      <<RouteInfo(RootPath, HomeName),
                        RouteInfo(AboutPath, SettingsName)>>},
          stateType \in {"redux", "zustand", "context", "unknown"} :
          codebaseAnalysis =
              CodebaseAnalysis(routes, stateType, <<StoreName>>, <<Vite>>)
    /\ tree = RewriterTree
    /\ treeBefore = tree
    /\ cursor = 0
    /\ console = <<>>
    /\ calls = <<>>

NextRewriters ==
    \/ TransformRoutes
    \/ TransformRoute
    \/ CreateRootLayout
    \/ TransformViteConfig
    \/ TransformPackageJson
    \/ TransformStateManagement
    \/ TransformTestFiles
    \/ TransformTestFile

SpecRewriters == InitRewriters /\ [][NextRewriters]_vars

---------------------------------------------------------------------------
(* Command runs *)

\* a command is about to be run, with or without an API key in the
\* environment, on no project or on a project tree of Init
InitCommand ==
    /\ IdleAnalyzer
    /\ NoRewriter
    /\ cmd = [name |-> "none"]
    /\ cmdPc = "idle"
    /\ apiKey \in BOOLEAN
    /\ stdout = <<>>
    /\ exitCode = 0
    /\ cwdFiles = {}
    /\ stepsDone = 0
    /\ \/ NoProject
       \/ /\ rootExists = TRUE
          /\ manifest \in {MalformedManifest, ViteOnlyManifest}
          /\ \E probes \in SubsetsUpTo(Paths(ProbeNames), MaxFiles),
                withSources \in BOOLEAN :
                /\ files = probes \cup ManifestFile(manifest)
                           \cup (IF withSources
                                 THEN Paths({SrcA, SrcReactRouter}) ELSE {})
                /\ unreadable = IF withSources THEN Paths({SrcA}) ELSE {}

NextAnalyze ==
    \/ AnalyzeCommand
    \/ ReadPackageJson
    \/ ReadSecondaryManifests
    \/ AnalyzeDependencies
    \/ ScanConfigs
    \/ AnalyzeCodebaseNested
    \/ ReadCodebaseFile
    \/ AnalyzeRouting
    \/ AIAnalyzeDependencies
    \/ AnalyzeConfiguration
    \/ CombineResults
    \/ AnalyzeCommandReport
    \/ AnalyzeCommandCatch

SpecAnalyze == InitCommand /\ [][NextAnalyze]_vars

NextMigrate ==
    \/ MigrateCommand
    \/ MigrateComingSoon
    \/ ReadPackageJson
    \/ ReadSecondaryManifests
    \/ AnalyzeDependencies
    \/ ScanConfigs
    \/ AnalyzeCodebaseNested
    \/ ReadCodebaseFile
    \/ AnalyzeRouting
    \/ AIAnalyzeDependencies
    \/ AnalyzeConfiguration
    \/ CombineResults
    \/ GenerateMigrationPlan
    \/ MigrateConfirm
    \/ MigrateBackup
    \/ MigrateStep
    \/ MigrateCompleted
    \/ MigrateCatch

SpecMigrate == InitCommand /\ [][NextMigrate]_vars

---------------------------------------------------------------------------
(* Properties of the migration plan *)

PlanCategories ==
    <<[field |-> "tsConfig", id |-> "2",
       title |-> "Migrate TypeScript Configuration"],
      [field |-> "testConfig", id |-> "3",
       title |-> "Migrate Testing Setup"],
      [field |-> "lintConfig", id |-> "4",
       title |-> "Migrate Linting Configuration"],
      [field |-> "prettierConfig", id |-> "5",
       title |-> "Migrate Formatting Configuration"],
      [field |-> "ciConfig", id |-> "6",
       title |-> "Migrate CI/CD Pipeline"],
      [field |-> "containerizationConfig", id |-> "7",
       title |-> "Migrate Containerization Setup"]>>

StepIds(p) == [i \in 1..Len(p.steps) |-> p.steps[i].id]

PresentCategories(a) ==
    LET present(c) == a[c.field] # NULL
    IN  SelectSeq(PlanCategories, present)

ExpectedStepIds(a) ==
    LET cs == PresentCategories(a)
    IN  <<"1">> \o [i \in 1..Len(cs) |-> cs[i].id]

OnlyPresent(a, fields) ==
    \A i \in 1..Len(PlanCategories) :
        (a[PlanCategories[i].field] # NULL)
            <=> (PlanCategories[i].field \in fields)

\* C1: the plan's steps are the scaffold step (id '1') followed by one step
\* for each non-null field among tsConfig, testConfig, lintConfig,
\* prettierConfig, ciConfig, containerizationConfig, in that order, and
\* nothing else; with only tsConfig and ciConfig the ids are '1','2','6',
\* with every field null the plan is the scaffold step alone.
C1_PlanIsScaffoldThenPresentCategories ==
    plan # None =>
        LET a == analysis[1]
            p == plan[1]
        IN  /\ p.steps[1] = ScaffoldStep
            /\ StepIds(p) = ExpectedStepIds(a)
            /\ OnlyPresent(a, {"tsConfig", "ciConfig"})
                  => StepIds(p) = <<"1", "2", "6">>
            /\ OnlyPresent(a, {}) => p.steps = <<ScaffoldStep>>

C1_Witness ==
    /\ plan # None
    /\ OnlyPresent(analysis[1], {"tsConfig", "ciConfig"})
    /\ StepIds(plan[1]) = <<"1", "2", "6">>

ConfigFields ==
    {"tsConfig", "pythonConfig", "testConfig", "lintConfig",
     "prettierConfig", "ciConfig", "containerizationConfig"}

StepCategoryFields == ConfigFields \ {"pythonConfig"}

NonNull(a, fields) == {f \in fields : a[f] # NULL}

\* the number of steps that carry the id of category c
StepsOf(p, c) == Cardinality({i \in 1..Len(p.steps) : p.steps[i].id = c.id})

\* C2 as stated: every non-null field among the seven config fields,
\* pythonConfig included, contributes exactly one step, so the number of
\* steps is 1 plus the number of non-null config fields.
C2_OneStepPerConfigField ==
    plan # None =>
        Len(plan[1].steps) = 1 + Cardinality(NonNull(analysis[1], ConfigFields))

\* C2, amended: every non-null field among tsConfig, testConfig, lintConfig,
\* prettierConfig, ciConfig, containerizationConfig contributes exactly one
\* step and every null one none; pythonConfig contributes no step; the
\* number of steps is 1 plus the number of non-null fields among those six.
C2_OneStepPerPlannedCategory ==
    plan # None =>
        LET a == analysis[1]
            p == plan[1]
        IN  /\ \A i \in 1..Len(PlanCategories) :
                  StepsOf(p, PlanCategories[i]) =
                      IF a[PlanCategories[i].field] # NULL THEN 1 ELSE 0
            /\ Len(p.steps) = 1 + Cardinality(NonNull(a, StepCategoryFields))

C2_Witness ==
    /\ plan # None
    /\ analysis[1].pythonConfig # NULL
    /\ analysis[1].testConfig # NULL
    /\ analysis[1].lintConfig = NULL
    /\ Len(plan[1].steps) =
          1 + Cardinality(NonNull(analysis[1], StepCategoryFields))

\* C3: the step of a category carries that category's fixed id (type-check
\* '2', test '3', lint '4', formatter '5', CI '6', containerization '7')
\* whichever other categories are present, and no two steps of a plan have
\* the same id.
C3_StepIdsAreFixedPerCategory ==
    plan # None =>
        LET a == analysis[1]
            p == plan[1]
        IN  /\ NoDuplicates(StepIds(p))
            /\ \A i \in 1..Len(PlanCategories) :
                  LET c == PlanCategories[i]
                  IN  a[c.field] # NULL =>
                        \E k \in 1..Len(p.steps) :
                            /\ p.steps[k].title = c.title
                            /\ p.steps[k].id = c.id
            /\ \A k \in 1..Len(p.steps) :
                  \A i \in 1..Len(PlanCategories) :
                      p.steps[k].title = PlanCategories[i].title
                          => p.steps[k].id = PlanCategories[i].id

C3_Witness ==
    /\ plan # None
    /\ OnlyPresent(analysis[1], {"lintConfig", "containerizationConfig"})
    /\ StepIds(plan[1]) = <<"1", "4", "7">>

---------------------------------------------------------------------------
(* Properties of the dependency classifier *)

DeclaredKeys(pkg) ==
    Range(Keys(pkg.dependencies)) \cup Range(Keys(pkg.devDependencies))

\* C4: the classifier puts every declared key (dependencies and
\* devDependencies merged) into exactly one of viteSpecific and
\* nextCompatible: the two are disjoint, their union is the set of declared
\* keys, and no key is dropped or listed twice.
C4_ClassifierPartitionsKeys ==
    dependencyAnalysis # None /\ codebasePackageJson # None =>
        LET keys == DeclaredKeys(codebasePackageJson[1])
            vs == dependencyAnalysis[1].viteSpecific
            nc == dependencyAnalysis[1].nextCompatible
        IN  /\ Range(vs) \cap Range(nc) = {}
            /\ Range(vs) \cup Range(nc) = keys
            /\ NoDuplicates(vs) /\ NoDuplicates(nc)
            /\ Len(vs) + Len(nc) = Cardinality(keys)

C4_Witness ==
    /\ dependencyAnalysis # None
    /\ codebasePackageJson # None
    /\ codebasePackageJson[1].dependencies = <<Dep(Rollup, V4), Dep(React, V4)>>
    /\ codebasePackageJson[1].devDependencies = <<Dep(React, V4), Dep(Vitest, V4)>>
    /\ dependencyAnalysis[1].viteSpecific = <<Rollup, Vitest>>
    /\ dependencyAnalysis[1].nextCompatible = <<React>>

---------------------------------------------------------------------------
(* Properties of analyzeProject and analyzeCodebase *)

Kinds(kind) ==
    LET isKind(op) == op[1] = kind
    IN  SelectSeq(ops, isKind)

OracleCalled == Kinds("oracle") # <<>>

NoAuxiliaryConfig == files \cap Paths(ProbeNames) = {}

AnalysisConfigFieldsNull(a) == \A f \in ConfigFields : a[f] = NULL

\* C5: for a project whose package.json declares only the dependency vite
\* and that has no auxiliary config file, the analysis a successful
\* analyzeProject run returns has the source-stack-specific set <<vite>>,
\* an empty target-compatible set, every config field null, and the planner
\* derives the scaffold step alone from it.
C5_ViteOnlyProjectAnalysis ==
    (/\ pc = "done" /\ entry = "analyzeProject" /\ outcome = "returned"
     /\ manifest = ViteOnlyManifest /\ NoAuxiliaryConfig
     /\ analysis[1].aiSuggestions # None) =>
        /\ analysis[1].aiSuggestions[1].dependencies.viteSpecific = <<Vite>>
        /\ analysis[1].aiSuggestions[1].dependencies.nextCompatible = <<>>
        /\ AnalysisConfigFieldsNull(analysis[1])
        /\ plan[1].steps = <<ScaffoldStep>>

\* the analysis of the project on disk when the oracle is skipped
SkippedOracleAnalysis ==
    LET pkg == JSONParse(FileContent(PackageJsonPath))[1]
        reqPath == InProject(RequirementsTxtName)
        tomlPath == InProject(PyprojectTomlName)
        reqs == IF pathExists(reqPath) THEN FileContent(reqPath).lines
                ELSE NULL
        toml == IF pathExists(tomlPath) THEN parseTOML(FileContent(tomlPath))
                ELSE NULL
    IN  FinalAnalysis(
            BasicAnalysisRecord(pkg, toml, analyzeDependencies(pkg, reqs, toml),
                                options.config),
            None)

DeterministicFields ==
    {"framework", "dependencies", "configFiles"} \cup ConfigFields

\* the oracle was called and analyzeCodebase ended without a result
OracleFailed ==
    /\ entry = "analyzeProject"
    /\ OracleCalled
    /\ aiAnalysis = None
    /\ pc \notin {"aiAnalyzeDependencies", "analyzeConfiguration"}

\* C6: when the oracle fails during analyzeProject with AI enabled,
\* analyzeProject still returns; the analysis has no aiSuggestions and its
\* framework, dependencies, config fields and configFiles are those the
\* same project yields with the oracle skipped.
C6_OracleFailureIsNotFatal ==
    OracleFailed =>
        /\ outcome # "rejected"
        /\ pc \in {"combine", "returned", "done"}
        /\ pc # "combine" =>
              /\ outcome = "returned"
              /\ analysis # None
              /\ analysis[1].aiSuggestions = None
              /\ analysis[1].routingStructure = <<>>
              /\ \A f \in DeterministicFields :
                    analysis[1][f] = SkippedOracleAnalysis[f]

C6_Witness ==
    /\ OracleFailed
    /\ Len(Kinds("oracle")) = 2
    /\ pc = "done"
    /\ outcome = "returned"
    /\ analysis[1].aiSuggestions = None
    /\ analysis[1].framework = "vite"
    /\ analysis[1].ciConfig # NULL

\* C7: a missing project root or package.json is fatal before any analysis
\* work: analyzeProject rejects having made no config probe, manifest read
\* or oracle call, and analyzeCodebase on a project path that does not
\* exist rejects with ENOENT having read no file and called no oracle.
C7_MissingProjectIsFatalFirst ==
    /\ (entry = "analyzeProject" /\ ~pathExists(PackageJsonPath)) =>
          /\ pc = "done"
          /\ outcome = "rejected"
          /\ error = "Invalid project directory"
          /\ ops = <<Op("pathExists", PackageJsonPath)>>
          /\ analysis = None
    /\ (entry = "analyzeCodebase" /\ ~pathExists(ProjectPath)) =>
          /\ pc = "done"
          /\ outcome = "rejected"
          /\ error = "ENOENT"
          /\ ops = <<Op("pathExists", ProjectPath)>>
          /\ aiAnalysis = None

C7_Witness ==
    /\ entry = "analyzeProject"
    /\ rootExists
    /\ ~pathExists(PackageJsonPath)
    /\ InProject(TsconfigName) \in files
    /\ outcome = "rejected"
    /\ ops = <<Op("pathExists", PackageJsonPath)>>

\* C8 as stated: with package.json absent or malformed, dependency
\* classification runs over an empty mapping and the analysis does not
\* fail.
C8_BadManifestIsTolerated ==
    (/\ entry = "analyzeProject" /\ pc = "done"
     /\ manifest.state \in {"absent", "malformed"}) =>
        /\ outcome = "returned"
        /\ analysis # None
        /\ dependencies = <<>>

\* C8, amended: with package.json absent or malformed analyzeProject
\* rejects: when absent with 'Invalid project directory' before anything is
\* read, when malformed with the parse error of readPackageJson, before any
\* dependency is classified or config file probed; no analysis is returned.
C8_BadManifestIsFatal ==
    (/\ entry = "analyzeProject"
     /\ manifest.state \in {"absent", "malformed"}
     /\ pc # "readPackageJson") =>
        /\ pc = "done"
        /\ outcome = "rejected"
        /\ error = IF manifest.state = "absent"
                   THEN "Invalid project directory" ELSE "SyntaxError"
        /\ Kinds("readJson") =
              IF manifest.state = "absent" THEN <<>>
              ELSE <<Op("readJson", PackageJsonPath)>>
        /\ Len(Kinds("pathExists")) = 1
        /\ dependencies = <<>>
        /\ dependencyAnalysis = None
        /\ basicAnalysis = None
        /\ analysis = None

C8_Witness ==
    /\ entry = "analyzeProject"
    /\ manifest.state = "malformed"
    /\ InProject(RequirementsTxtName) \in files
    /\ pc = "done"
    /\ outcome = "rejected"
    /\ error = "SyntaxError"

\* the operations logged after the glob of getRelevantFiles
AfterGlob ==
    LET at == {i \in 1..Len(ops) : ops[i][1] = "glob"}
    IN  IF at = {} THEN <<>>
        ELSE SubSeq(ops, (CHOOSE i \in at : TRUE) + 1, Len(ops))

Globbed == \E i \in 1..Len(ops) : ops[i][1] = "glob"

FileReads ==
    LET isRead(op) == op[1] = "readFile"
    IN  SelectSeq(AfterGlob, isRead)

\* C9: in the bulk read a file that cannot be read does not abort the
\* analysis: every relevant file is read in turn, the unreadable ones leave
\* no entry, and the name-to-content map holds exactly the readable files.
C9_UnreadableFileIsSkipped ==
    Globbed =>
        LET relevant == getRelevantFiles
            visited == Len(relevant) - Len(toRead)
        IN  /\ visited >= 0
            /\ toRead = SubSeq(relevant, visited + 1, Len(relevant))
            /\ FileReads =
                  [i \in 1..visited |->
                      Op("readFile", InProject(relevant[i]))]
            /\ DOMAIN codebase =
                  {relevant[i] : i \in {k \in 1..visited :
                      InProject(relevant[k]) \notin unreadable}}
            /\ \A f \in DOMAIN codebase :
                  codebase[f] = FileContent(InProject(f))
            /\ toRead # <<>> => pc = "readCodebaseFiles"

C9_Witness ==
    /\ Globbed
    /\ getRelevantFiles = <<SrcA, SrcReactRouter>>
    /\ InProject(SrcA) \in unreadable
    /\ toRead = <<>>
    /\ DOMAIN codebase = {SrcReactRouter}
    /\ FileReads = <<Op("readFile", InProject(SrcA)),
                     Op("readFile", InProject(SrcReactRouter))>>

Probed(name) ==
    \E i \in 1..Len(ops) : ops[i] = Op("pathExists", InProject(name))

OnDisk(name) == InProject(name) \in files

\* the first of the candidate names that exists, as a path; null when none
FirstOnDisk(names) ==
    LET hits == {i \in 1..Len(names) : OnDisk(names[i])}
    IN  IF hits = {} THEN NULL
        ELSE InProject(names[CHOOSE i \in hits : \A j \in hits : i <= j])

\* C10: each config category is the first existing candidate of its probe
\* order, null when none exists: ciConfig is .github/workflows when it
\* exists, else .gitlab-ci.yml, else null; testConfig is jest.config.js
\* when it exists, else pytest.ini, else null; a later candidate is not
\* probed once an earlier one is found.
C10_FirstExistingCandidateWins ==
    basicAnalysis # None =>
        LET b == basicAnalysis[1]
        IN  /\ b.ciConfig = FirstOnDisk(<<GithubWorkflowsName, GitlabCiName>>)
            /\ b.testConfig = FirstOnDisk(<<JestConfigName, PytestIniName>>)
            /\ b.tsConfig = FirstOnDisk(<<TsconfigName>>)
            /\ b.pythonConfig = FirstOnDisk(<<PyprojectTomlName>>)
            /\ b.lintConfig = FirstOnDisk(<<EslintrcName>>)
            /\ b.prettierConfig = FirstOnDisk(<<PrettierrcName>>)
            /\ b.containerizationConfig = FirstOnDisk(<<DockerfileName>>)
            /\ Probed(GithubWorkflowsName) /\ Probed(JestConfigName)
            /\ Probed(GitlabCiName) <=> ~OnDisk(GithubWorkflowsName)
            /\ Probed(PytestIniName) <=> ~OnDisk(JestConfigName)

C10_Witness ==
    /\ basicAnalysis # None
    /\ OnDisk(GithubWorkflowsName) /\ OnDisk(GitlabCiName)
    /\ basicAnalysis[1].ciConfig = InProject(GithubWorkflowsName)
    /\ ~Probed(GitlabCiName)


---------------------------------------------------------------------------
(* Properties of repeated scans *)

\* what a scan reports of the config categories and the inventory
ScanFields(r) == [f \in ConfigFields \cup {"configFiles"} |-> r[f]]

TypedFields(r) == [f \in ConfigFields \cup {"framework"} |-> r[f]]

\* the scans made so far over the tree: the recorded ones and, once
\* performBasicAnalysis has returned, that of the running call
ScansSoFar ==
    scans \o (IF basicAnalysis = None THEN <<>>
              ELSE <<[config |-> options.config,
                      result |-> basicAnalysis[1]]>>)

InventoryNames(config) ==
    configPatterns \o (IF config = None THEN <<>> ELSE config[1])

\* C12: the custom config names affect only the configFiles inventory:
\* configFiles is the sublist of the fixed patterns followed by the custom
\* names whose path exists, a custom name that does not exist is left out
\* and the analysis does not fail, and the typed category fields and the
\* framework are the same whatever the custom list.
C12_CustomNamesOnlyInInventory ==
    /\ \A i \in 1..Len(ScansSoFar) :
          /\ ScansSoFar[i].result.configFiles =
                SelectSeq(InventoryNames(ScansSoFar[i].config), OnDisk)
          /\ \A j \in 1..Len(ScansSoFar) :
                TypedFields(ScansSoFar[i].result)
                = TypedFields(ScansSoFar[j].result)
    /\ (entry = "analyzeProject" /\ pathExists(PackageJsonPath)
        /\ manifest.state = "valid")
       => outcome # "rejected"

C12_Witness ==
    /\ Len(scans) = 1
    /\ scans[1].config = None
    /\ options.config = Some(<<CustomConfigName>>)
    /\ ~OnDisk(CustomConfigName)
    /\ OnDisk(TsconfigName)
    /\ pc = "done"
    /\ outcome = "returned"
    /\ analysis[1].configFiles = <<TsconfigName>>
    /\ analysis[1].tsConfig = scans[1].result.tsConfig
    /\ analysis[1].tsConfig # NULL

---------------------------------------------------------------------------
(* Properties of the route rewriter *)

\* the segments of a route path, read character by character: the maximal
\* runs of characters other than "/"
RECURSIVE CharSegments(_, _, _)
CharSegments(rest, run, acc) ==
    LET closed == IF run = <<>> THEN acc ELSE Append(acc, run)
    IN  IF rest = <<>> THEN closed
        ELSE IF Head(rest) = "/" THEN CharSegments(Tail(rest), <<>>, closed)
        ELSE CharSegments(Tail(rest), Append(run, Head(rest)), acc)

SegmentsOf(routePath) == CharSegments(routePath, <<>>, <<>>)

IsParameter(segment) == segment # <<>> /\ segment[1] = ":"

ParameterName(segment) == Tail(segment)

\* the bracketed segment of a parameter name
Bracketed(name) == <<"[">> \o name \o <<"]">>

\* the target segments the translation rule gives a route path
ExpectedTargetSegments(routePath) ==
    LET segs == SegmentsOf(routePath)
    IN  [i \in 1..Len(segs) |->
            IF IsParameter(segs[i]) THEN Bracketed(ParameterName(segs[i]))
            ELSE segs[i]]

\* the segments of a page path between the app directory and page.tsx
TargetSegments(pagePath) ==
    LET segs == PathSegments(pagePath)
    IN  SubSeq(segs, Len(PathSegments(AppDir)) + 1, Len(segs) - 1)

Routes == codebaseAnalysis.routing.routes

\* the page paths transformRoutes has reported (dry run) or written in
\* the call in progress or just settled, in order
PagesReported ==
    LET isPage(line) == line.text = "Would create page"
        pages == SelectSeq(console, isPage)
    IN  [i \in 1..Len(pages) |-> pages[i].about]

IsPageWrite(op) ==
    op[1] = "writeFile" /\ EndsWith(op[2], Slash \o PageTsxName)

PagesWritten ==
    LET writes == SelectSeq(ops, IsPageWrite)
    IN  [i \in 1..Len(writes) |-> writes[i][2]]

PagesTargeted == IF dryRun THEN PagesReported ELSE PagesWritten

\* C13: the target path of a route maps each :name segment to [name] and
\* leaves every literal segment as it is, keeping the number and the order
\* of the segments; /users/:id becomes users/[id].
C13_ParametersBecomeBracketed ==
    /\ NextPath(UsersIdPath) = <<"u","s","e","r","s","/","[","i","d","]">>
    /\ (entry = "transformRoutes" /\ cursor > 1) =>
          /\ Len(PagesTargeted) = 1
          /\ TargetSegments(PagesTargeted[1])
             = ExpectedTargetSegments(Routes[1].path)
          /\ Len(TargetSegments(PagesTargeted[1]))
             = Len(SegmentsOf(Routes[1].path))

C13_Witness ==
    /\ entry = "transformRoutes"
    /\ ~dryRun
    /\ cursor = 2
    /\ Routes[1].path = UsersIdPath
    /\ PagesWritten
       = <<PathJoinAll(<<AppDir, <<"u","s","e","r","s">>, <<"[","i","d","]">>,
                         PageTsxName>>)>>
    /\ TreeHas(tree, PagesWritten[1])

\* the inverse mapping: a bracketed segment [name] becomes :name
InverseSegment(segment) ==
    IF Len(segment) >= 2 /\ segment[1] = "[" /\ segment[Len(segment)] = "]"
    THEN Colon \o SubSeq(segment, 2, Len(segment) - 1)
    ELSE segment

RoundTrip(pagePath) ==
    LET target == TargetSegments(pagePath)
    IN  [i \in 1..Len(target) |-> InverseSegment(target[i])]

\* a literal segment that already has the bracketed form
HasBracketedLiteral(routePath) ==
    \E i \in 1..Len(SegmentsOf(routePath)) :
        /\ ~IsParameter(SegmentsOf(routePath)[i])
        /\ InverseSegment(SegmentsOf(routePath)[i])
           # SegmentsOf(routePath)[i]

\* C14 as stated: for every route path, translating it and mapping the
\* bracketed segments back gives the segments of the path again.
C14_RoundTripOfEveryPath ==
    (entry = "transformRoutes" /\ cursor > 1) =>
        RoundTrip(PagesTargeted[1]) = SegmentsOf(Routes[1].path)

\* C14: for every route path none of whose literal segments has the
\* bracketed form, translating it and mapping the bracketed segments back
\* gives the segments of the path again, parameter names included.
C14_RoundTripWithoutBracketedLiterals ==
    (entry = "transformRoutes" /\ cursor > 1
     /\ ~HasBracketedLiteral(Routes[1].path)) =>
        RoundTrip(PagesTargeted[1]) = SegmentsOf(Routes[1].path)

C14_Witness ==
    /\ entry = "transformRoutes"
    /\ cursor = 2
    /\ Routes[1].path = <<"a", "/", ":">>
    /\ TargetSegments(PagesTargeted[1]) = <<<<"a">>, <<"[", "]">>>>
    /\ RoundTrip(PagesTargeted[1]) = <<<<"a">>, <<":">>>>

\* C15 as stated: in a real run no page path is written by more than one
\* route.
C15_NoPageWrittenTwice ==
    (entry = "transformRoutes" /\ ~dryRun) => NoDuplicates(PagesWritten)

\* a component file exists in one of the candidate directories with one of
\* the candidate extensions
ComponentOnDisk(t, componentName) ==
    \E d \in Range(ComponentDirectories), e \in Range(ComponentExtensions) :
        TreeHas(t, ProjectPath \o Slash \o d \o Slash \o componentName \o e)

RoutesWithComponent ==
    LET has(route) == ComponentOnDisk(treeBefore, route.component)
    IN  SelectSeq(Routes, has)

RoutesWithoutComponent ==
    LET lacks(route) == ~ComponentOnDisk(treeBefore, route.component)
    IN  SelectSeq(Routes, lacks)

LayoutPath == AppDir \o Slash \o LayoutTsxName

\* C17: in a real run a route whose component file is in none of the
\* candidate places is skipped with a warning and no error; every other
\* route has its page written, in order, and the root layout is written.
C17_MissingComponentSkipsOnlyThatRoute ==
    (entry = "transformRoutes" /\ ~dryRun) =>
        /\ outcome # "rejected"
        /\ pc = "idle" =>
              /\ outcome = "returned"
              /\ PagesWritten
                 = [i \in 1..Len(RoutesWithComponent) |->
                       PagePath(RoutesWithComponent[i].path)]
              /\ console
                 = [i \in 1..Len(RoutesWithoutComponent) |->
                       Line("warn", "Could not find component file",
                            RoutesWithoutComponent[i].component)]
              /\ ops[Len(ops)] = Op("writeFile", LayoutPath)
              /\ tree[LayoutPath] = RootLayoutContent

C17_Witness ==
    /\ entry = "transformRoutes"
    /\ ~dryRun
    /\ pc = "idle"
    /\ outcome = "returned"
    /\ Len(calls) = 1
    /\ Routes = <<RouteInfo(AboutPath, SettingsName),
                  RouteInfo(UsersPath, UserProfileName)>>
    /\ ~TreeHas(tree, PagePath(AboutPath))
    /\ TreeHas(tree, PagePath(UsersPath))
    /\ TreeHas(tree, LayoutPath)

---------------------------------------------------------------------------
(* Properties of the rewriters *)

RewriterNames ==
    {"transformRoutes", "transformViteConfig", "transformPackageJson",
     "transformStateManagement", "transformTestFiles"}

\* C16: a rewriter called with dryRun = true creates, writes and deletes
\* nothing: at every step of a dry-run call the file tree is the tree the
\* call began with, and after any sequence of dry-run calls it is the tree
\* before the first of them.
C16_DryRunLeavesTreeAlone ==
    /\ (entry \in RewriterNames /\ dryRun) =>
          /\ tree = treeBefore
          /\ \A i \in 1..Len(ops) : ops[i][1] = "readFile"
    /\ \A i \in 1..Len(calls) : calls[i].dryRun =>
          calls[i].after = calls[i].before
    /\ (/\ calls # <<>>
        /\ \A i \in 1..Len(calls) : calls[i].dryRun
        /\ pc = "idle" \/ dryRun) =>
          tree = calls[1].before

C16_Witness ==
    /\ Len(calls) = 2
    /\ calls[1].name = "transformTestFiles"
    /\ calls[2].name = "transformRoutes"
    /\ calls[1].dryRun /\ calls[2].dryRun
    /\ calls[1].outcome = "returned" /\ calls[2].outcome = "returned"
    /\ Len(console) = 2
    /\ console[1].text = "Would create page"
    /\ tree = RewriterTree

\* the manifest object before and after the transformPackageJson call
\* that has just settled
ManifestBefore == JSONParse(treeBefore[RewriterPackageJsonPath])[1]
ManifestAfter == JSONParse(tree[RewriterPackageJsonPath])[1]

RealManifestRunReturned ==
    /\ entry = "transformPackageJson"
    /\ ~dryRun
    /\ pc = "idle"
    /\ outcome = "returned"

\* the entries of a map that may be absent
Entries(obj) == IF obj = None THEN {} ELSE Range(obj[1])

EntryNames(obj) == {e.name : e \in Entries(obj)}

ViteSpecificNames == Range(codebaseAnalysis.dependencies.viteSpecific)

TargetNames == {NextName, React, ReactDom}

\* C18: after a real transformPackageJson run no viteSpecific key is left
\* in dependencies or devDependencies, dependencies holds next, react and
\* react-dom at the target versions, and every other entry that was there
\* is unchanged.
C18_ManifestDependenciesRewritten ==
    RealManifestRunReturned =>
        /\ EntryNames(ManifestAfter.dependencies) \cap ViteSpecificNames = {}
        /\ EntryNames(ManifestAfter.devDependencies) \cap ViteSpecificNames
           = {}
        /\ {Dep(NextName, V14), Dep(React, V18), Dep(ReactDom, V18)}
           \subseteq Entries(ManifestAfter.dependencies)
        /\ \A e \in Entries(ManifestBefore.dependencies) :
              e.name \notin ViteSpecificNames \cup TargetNames =>
                  e \in Entries(ManifestAfter.dependencies)
        /\ \A e \in Entries(ManifestBefore.devDependencies) :
              e.name \notin ViteSpecificNames =>
                  e \in Entries(ManifestAfter.devDependencies)
        /\ EntryNames(ManifestAfter.dependencies)
           \subseteq EntryNames(ManifestBefore.dependencies) \cup TargetNames
        /\ Entries(ManifestAfter.devDependencies)
           \subseteq Entries(ManifestBefore.devDependencies)

C18_Witness ==
    /\ RealManifestRunReturned
    /\ Len(calls) = 1
    /\ codebaseAnalysis.dependencies.viteSpecific = <<Vite>>
    /\ ManifestBefore.dependencies = Some(<<Dep(Vite, V4), Dep(React, V17)>>)
    /\ ManifestBefore.devDependencies
       = Some(<<Dep(Vite, V4), Dep(VitePluginReact, V3)>>)
    /\ ManifestAfter.dependencies
       = Some(<<Dep(React, V18), Dep(NextName, V14), Dep(ReactDom, V18)>>)
    /\ ManifestAfter.devDependencies = Some(<<Dep(VitePluginReact, V3)>>)

\* C19: after a real transformPackageJson run the scripts dev, build, start
\* and lint hold the target commands and every script of another name that
\* was there is there with its command.
C19_ScriptsAreMerged ==
    RealManifestRunReturned =>
        /\ Range(nextScripts) \subseteq Entries(ManifestAfter.scripts)
        /\ \A s \in Entries(ManifestBefore.scripts) :
              s.name \notin EntryNames(Some(nextScripts)) =>
                  s \in Entries(ManifestAfter.scripts)
        /\ \A s, t \in Entries(ManifestAfter.scripts) :
              s.name = t.name => s = t

C19_Witness ==
    /\ RealManifestRunReturned
    /\ Len(calls) = 1
    /\ ManifestBefore.scripts
       = Some(<<Script("test", "vitest"), Script("build", "vite build")>>)
    /\ ManifestAfter.scripts
       = Some(<<Script("test", "vitest"), Script("build", "next build"),
                Script("dev", "next dev"), Script("start", "next start"),
                Script("lint", "next lint")>>)

\* C20: the test rewriter is idempotent: of two real transformTestFiles
\* runs in a row the second leaves every file as the first left it, and
\* when the first returned the second returns as well.
C20_TestRewriteIsIdempotent ==
    \A i \in 1..(Len(calls) - 1) :
        (/\ calls[i].name = "transformTestFiles"
         /\ calls[i + 1].name = "transformTestFiles"
         /\ ~calls[i].dryRun /\ ~calls[i + 1].dryRun) =>
            /\ calls[i + 1].after = calls[i].after
            /\ calls[i].outcome = "returned" =>
                  calls[i + 1].outcome = "returned"

C20_Witness ==
    /\ Len(calls) = 2
    /\ ~calls[1].dryRun /\ ~calls[2].dryRun
    /\ calls[1].outcome = "returned" /\ calls[2].outcome = "returned"
    /\ calls[1].before[AppTestPath]
       = SourceFile(<<ImportItem(<<"a">>, "single"), BlankItem>>)
    /\ calls[1].after[AppTestPath]
       = SourceFile(<<ImportItem(<<"a">>, "double")>>)
    /\ TreeHas(tree, UtilTestPath)
    /\ tree = calls[1].after

---------------------------------------------------------------------------
(* Properties of the state management rewriter *)

\* the call that settled last is transformStateManagement
StateManagementSettled ==
    /\ pc = "idle"
    /\ Len(calls) > 0
    /\ calls[Len(calls)].name = "transformStateManagement"

UnimplementedIdioms == {"zustand", "context"}

\* C21: when the detected idiom is zustand or context, a settled
\* transformStateManagement call has told its caller that the idiom is
\* unsupported: it rejected, or it wrote a line to the console.
C21_UnimplementedIdiomIsSignalled ==
    (/\ StateManagementSettled
     /\ codebaseAnalysis.stateManagement.type \in UnimplementedIdioms) =>
        \/ calls[Len(calls)].outcome = "rejected"
        \/ console # <<>>

---------------------------------------------------------------------------
(* Properties of the analysis snapshot *)

\* the consumers of an analysis: the planner on the analyses of InitPlan,
\* the rewriters on those of InitRewriters
NextSnapshot ==
    \/ GenerateMigrationPlan
    \/ TransformRoutes
    \/ TransformRoute
    \/ CreateRootLayout
    \/ TransformViteConfig
    \/ TransformPackageJson
    \/ TransformStateManagement
    \/ TransformTestFiles
    \/ TransformTestFile

SpecSnapshot == (InitPlan \/ InitRewriters) /\ [][NextSnapshot]_vars

\* C22: the analysis is read-only: no step of generateMigrationPlan or of
\* a rewriter, in dry-run or in real mode, changes the ProjectAnalysis the
\* planner was built on or the CodebaseAnalysis the rewriters are passed.
C22_AnalysisIsReadOnly ==
    [][/\ analysis' = analysis
       /\ codebaseAnalysis' = codebaseAnalysis]_vars

\* two real rewriter runs have rewritten the manifest and the store and the
\* analysis still lists the vite dependency and the store
C22_Witness ==
    /\ Len(calls) = 2
    /\ calls[1].name = "transformPackageJson"
    /\ calls[2].name = "transformStateManagement"
    /\ ~calls[1].dryRun /\ ~calls[2].dryRun
    /\ calls[1].after # calls[1].before
    /\ calls[2].after # calls[2].before
    /\ codebaseAnalysis
       = CodebaseAnalysis(<<>>, "redux", <<StoreName>>, <<Vite>>)

---------------------------------------------------------------------------
(* Properties of the root layout *)

IsLayoutWrite(op) == op = Op("writeFile", LayoutPath)

IsLayoutReport(line) == line.text = "Would create root layout"

\* how often the current transformRoutes run has emitted the root layout:
\* written it in real mode, reported it in dry-run
LayoutEmissions ==
    IF dryRun THEN Len(SelectSeq(console, IsLayoutReport))
    ELSE Len(SelectSeq(ops, IsLayoutWrite))

\* C27: a transformRoutes run emits the root layout exactly once, however
\* many routes there are and however many are skipped: nothing is emitted
\* while routes are still being processed, and when the run has settled
\* every route has had its turn and the layout is the last thing emitted.
C27_RootLayoutOnceAfterAllRoutes ==
    entry = "transformRoutes" =>
        /\ pc = "transformRoute" => LayoutEmissions = 0
        /\ pc = "idle" =>
              /\ LayoutEmissions = 1
              /\ cursor = Len(Routes) + 1
              /\ IF dryRun
                 THEN /\ IsLayoutReport(console[Len(console)])
                      /\ console[Len(console)].about = LayoutPath
                 ELSE /\ IsLayoutWrite(ops[Len(ops)])
                      /\ tree[LayoutPath] = RootLayoutContent

\* a real run over no route at all has written the layout and nothing else
C27_Witness ==
    /\ entry = "transformRoutes"
    /\ pc = "idle"
    /\ ~dryRun
    /\ Routes = <<>>
    /\ ops = <<Op("ensureDir", AppDir), Op("writeFile", LayoutPath)>>
    /\ tree[LayoutPath] = RootLayoutContent

\* C28: the redux rewriter is idempotent in real mode: of two real
\* transformStateManagement runs in a row on a redux analysis, the second
\* leaves the wrapper file and every store file as the first left them.
C28_ReduxRewriteIsIdempotent ==
    \A i \in 1..(Len(calls) - 1) :
        (/\ codebaseAnalysis.stateManagement.type = "redux"
         /\ calls[i].name = "transformStateManagement"
         /\ calls[i + 1].name = "transformStateManagement"
         /\ ~calls[i].dryRun /\ ~calls[i + 1].dryRun) =>
            calls[i + 1].after = calls[i].after

---------------------------------------------------------------------------
(* Properties of dry runs of the route rewriter *)

\* the paths a settled call reported with one of the given texts
ReportedBy(call, texts) ==
    {call.console[k].about :
        k \in {n \in 1..Len(call.console) : call.console[n].text \in texts}}

\* the files a settled call created or changed
FilesWrittenBy(call) ==
    {p \in DOMAIN call.after :
        /\ ~IsDir(call.after, p)
        /\ ~TreeHas(call.before, p) \/ call.before[p] # call.after[p]}

PagesWrittenBy(call) ==
    {p \in FilesWrittenBy(call) : EndsWith(p, Slash \o PageTsxName)}

\* C29: a dry run and a real run of transformRoutes on the same project
\* and analysis agree: the pages the dry run reports are the pages the real
\* run writes, and every file the real run writes (page, API handler, root
\* layout) is reported by the dry run.
C29_DryRunAgreesWithRealRun ==
    \A i \in 1..Len(calls), j \in 1..Len(calls) :
        (/\ calls[i].name = "transformRoutes"
         /\ calls[j].name = "transformRoutes"
         /\ calls[i].dryRun /\ ~calls[j].dryRun
         /\ calls[i].before = calls[j].before
         /\ calls[i].outcome = "returned"
         /\ calls[j].outcome = "returned") =>
            /\ ReportedBy(calls[i], {"Would create page"})
               = PagesWrittenBy(calls[j])
            /\ FilesWrittenBy(calls[j])
               \subseteq ReportedBy(calls[i], {"Would create page",
                                               "Would create root layout"})


---------------------------------------------------------------------------
(* Properties of the advisory block *)

AdvisoryFields == {"routing", "dependencies", "configuration"}

\* C30: the advisory block of a returned analysis is all or nothing:
\* aiSuggestions is absent and routingStructure is the empty list, or
\* aiSuggestions holds routing, dependencies and configuration, all three
\* from the one analyzeCodebase call that returned, and routingStructure is
\* its suggested structure; when an oracle call failed after the routing
\* call had succeeded the block is absent.
C30_AdvisoryBlockIsAllOrNothing ==
    (entry = "analyzeProject" /\ analysis # None) =>
        LET final == analysis[1]
        IN  /\ \/ /\ final.aiSuggestions = None
                  /\ final.routingStructure = <<>>
               \/ /\ final.aiSuggestions # None
                  /\ DOMAIN final.aiSuggestions[1] = AdvisoryFields
                  /\ final.aiSuggestions[1].routing = routingAnalysis[1]
                  /\ final.aiSuggestions[1].dependencies
                     = dependencyAnalysis[1]
                  /\ final.routingStructure
                     = final.aiSuggestions[1].routing
                          .suggestedNextjsStructure
            /\ final.aiSuggestions = aiAnalysis
            /\ (routingAnalysis # None /\ aiAnalysis = None) =>
                  final.aiSuggestions = None

\* the routing call succeeded, a later oracle call failed, and the analysis
\* returned without an advisory block
C30_Witness ==
    /\ entry = "analyzeProject"
    /\ analysis # None
    /\ ~options.skipAI
    /\ routingAnalysis # None
    /\ routingAnalysis[1].suggestedNextjsStructure # <<>>
    /\ dependencyAnalysis # None
    /\ aiAnalysis = None
    /\ analysis[1].aiSuggestions = None
    /\ analysis[1].routingStructure = <<>>


---------------------------------------------------------------------------
(* Properties of the analyze command *)

\* the analyze command has ended without an error
AnalyzeCompleted ==
    /\ cmd.name = "analyze"
    /\ cmdPc = "exited"
    /\ exitCode = 0

\* C24 as stated: every analyze run that completes without error has
\* written the report file to the working directory, whether or not the
\* analysis has suggestions of the oracle.
C24_ReportAlwaysWritten ==
    AnalyzeCompleted => ReportName \in cwdFiles

\* C24, amended: an analyze run that completes without error has written
\* the report file exactly when the analysis has aiSuggestions; a run
\* that has not completed, or that ended with an error, has written none.
C24_ReportWrittenWithSuggestions ==
    /\ AnalyzeCompleted =>
          (ReportName \in cwdFiles <=> analysis[1].aiSuggestions # None)
    /\ ~AnalyzeCompleted => cwdFiles = {}

C24_Witness ==
    /\ AnalyzeCompleted
    /\ cmd.ai
    /\ analysis[1].aiSuggestions # None
    /\ cwdFiles = {ReportName}
    /\ ops[Len(ops)] = Op("writeFileSync", ReportName)

MissingKeyWarning == "Warning: No Anthropic API key found"

\* C25: when ANTHROPIC_API_KEY is not set, an analyze run prints the
\* missing-key warning and runs the analysis with the oracle skipped
\* (skipAI true), with --no-ai and without it, and the analysis it completes
\* with has no aiSuggestions.
C25_MissingKeySkipsOracle ==
    (cmd.name = "analyze" /\ ~apiKey) =>
        /\ MissingKeyWarning \in Range(stdout)
        /\ options.skipAI
        /\ Kinds("oracle") = <<>>
        /\ AnalyzeCompleted => analysis[1].aiSuggestions = None

---------------------------------------------------------------------------
(* Properties of the migrate command *)

\* the backup copy has been started
BackupAttempted == Kinds("copy") # <<>>

\* a file lies in the backup directory
BackupFiles == {f \in files : StartsWith(f, BackupDir \o Slash)}

\* the operations that read and change nothing
ReadingKinds == {"pathExists", "readJson", "readFile", "glob", "oracle"}

\* the operator has agreed: --yes was given or the answer was yes
Confirmed == cmd.yes \/ (cmd.asked /\ cmd.confirm)

\* C23: the migrate command starts no backup copy and goes through no
\* migration step before the operator has confirmed; without --yes a no
\* answer ends the command with nothing copied or written and no step
\* performed; with --yes no confirmation is asked.
C23_NothingBeforeConfirmation ==
    cmd.name = "migrate" =>
        /\ (BackupAttempted \/ stepsDone > 0 \/ cmdPc \in {"backup",
                                                           "perform"}) =>
              Confirmed
        /\ cmd.yes => ~cmd.asked
        /\ (~cmd.yes /\ cmdPc \in {"backup", "perform"}) => cmd.asked
        /\ (cmd.asked /\ ~cmd.confirm) =>
              /\ cmdPc = "exited"
              /\ exitCode = 0
              /\ stepsDone = 0
              /\ BackupFiles = {}
              /\ \A i \in 1..Len(ops) : ops[i][1] \in ReadingKinds
              /\ stdout[Len(stdout)] = "Migration cancelled"

\* the operator answered no and the command ended
C23_Witness ==
    /\ cmd.name = "migrate"
    /\ cmd.handler = "createMigrateCommand"
    /\ ~cmd.yes
    /\ cmd.asked /\ ~cmd.confirm
    /\ cmdPc = "exited"
    /\ plan # None
    /\ rootExists
    /\ stdout = <<"Analyzing project...", "Migration cancelled">>

\* every file of the project that the filter lets through has its copy in
\* the backup directory
BackupComplete ==
    /\ BackupFiles # {}
    /\ \A f \in files :
          (/\ StartsWith(f, ProjectPath \o Slash)
           /\ ~StartsWith(f, BackupDir \o Slash)
           /\ ~Includes(f, NodeModulesName)) =>
              BackupDir \o SubSeq(f, Len(ProjectPath) + 1, Len(f)) \in files

\* C26: a migrate run that is not a dry run has the whole backup copy made
\* when it leaves the backup stage, before the first migration step; a
\* dry run makes no backup copy.
C26_BackupBeforeFirstStep ==
    (cmd.name = "migrate" /\ cmd.handler = "createMigrateCommand") =>
        /\ (~cmd.dryRun /\ (BackupAttempted \/ cmdPc = "perform")) =>
              BackupComplete
        /\ (~cmd.dryRun /\ stepsDone > 0) => BackupComplete
        /\ cmd.dryRun => ~BackupAttempted /\ BackupFiles = {}

====
